---- MODULE Spec2Model ----
(***************************************************************************)
(* ReMemory: threshold-shared passphrase, age-encrypted tar.gz manifest,   *)
(* share serialization and the browser recovery session.                   *)
(*                                                                         *)
(* Text is a sequence of one-character strings, bytes are 0..255.          *)
(***************************************************************************)
EXTENDS Integers, Sequences, FiniteSets, TLC

VARIABLES
    sham,       \* Split/Combine of one secret: inputs, shares, combination
    sec,        \* two secrets and the share indices an observer holds
    prs,        \* one text handed to the share parser, and what it returned
    project,    \* the sealer's project: inputs, and the artifacts once sealed
    session,    \* the recover session: held shares and attached ciphertext
    last        \* the last operation on the session and what it returned

vars == <<sham, sec, prs, project, session, last>>

\* the variables of the seal and recover engines
engineVars == <<project, session, last>>

(***************************************************************************)
(* Bounds of the model.                                                    *)
(***************************************************************************)
\* largest number of holders N explored
MaxN == 3
\* longest secret (passphrase) in bytes
MaxSecretLen == 2
\* largest number of coefficient vectors enumerated for one view set
MaxViews == 65536

\* byte values secrets are drawn from
SecretBytes == {0, 1, 255}
\* byte values the random polynomial coefficients are drawn from
CoeffBytes == {0, 202}

(***************************************************************************)
(* Generic helpers.                                                        *)
(***************************************************************************)
Range(s) == {s[i] : i \in DOMAIN s}

Min(a, b) == IF a < b THEN a ELSE b

\* all sequences over S of length lo..hi
SeqsOf(S, lo, hi) == UNION {[1..n -> S] : n \in lo..hi}

\* all sequences of pairwise distinct elements of S with length lo..hi
Arrangements(S, lo, hi) ==
    {q \in SeqsOf(S, lo, hi) : \A i, j \in DOMAIN q : i # j => q[i] # q[j]}

\* the concatenation of the sequences of ss, in order
RECURSIVE Flatten(_)
Flatten(ss) ==
    IF Len(ss) = 0 THEN <<>>
    ELSE IF Len(ss) = 1 THEN ss[1]
    ELSE Flatten(SubSeq(ss, 1, Len(ss) \div 2))
         \o Flatten(SubSeq(ss, (Len(ss) \div 2) + 1, Len(ss)))

(***************************************************************************)
(* GF(2^8) arithmetic of the Shamir implementation (reduction polynomial   *)
(* x^8 + x^4 + x^3 + x + 1).                                               *)
(***************************************************************************)
RECURSIVE XorBits(_, _)
XorBits(a, b) ==
    IF a = 0 THEN b
    ELSE IF b = 0 THEN a
    ELSE ((a + b) % 2) + 2 * XorBits(a \div 2, b \div 2)

XorTab == [a \in 0..255 |-> [b \in 0..255 |-> XorBits(a, b)]]

\* addition (and subtraction) in GF(2^8)
gfAdd(a, b) == XorTab[a][b]

xtime(a) == IF a >= 128 THEN gfAdd((a * 2) % 256, 27) ELSE a * 2

RECURSIVE MulBits(_, _)
MulBits(a, b) ==
    IF b = 0 THEN 0
    ELSE gfAdd(IF b % 2 = 1 THEN a ELSE 0, MulBits(xtime(a), b \div 2))

MulTab == [a \in 0..255 |-> [b \in 0..255 |-> MulBits(a, b)]]

gfMult(a, b) == MulTab[a][b]

InvTab == [a \in 1..255 |-> CHOOSE b \in 1..255 : MulTab[a][b] = 1]

\* a / b for b # 0
gfDiv(a, b) == IF a = 0 THEN 0 ELSE MulTab[a][InvTab[b]]

(***************************************************************************)
(* Shamir split: one random polynomial of degree k-1 per secret byte, the  *)
(* secret byte is the constant term; share i is the index byte i followed  *)
(* by the evaluations at x = i.                                            *)
(***************************************************************************)
\* Horner evaluation of coefficient sequence c (c[1] constant term) at x
RECURSIVE EvalPolyFrom(_, _, _)
EvalPolyFrom(c, x, i) ==
    IF i > Len(c) THEN 0
    ELSE gfAdd(c[i], gfMult(x, EvalPolyFrom(c, x, i + 1)))

evaluate(c, x) == EvalPolyFrom(c, x, 1)

\* ValidateShamirParams without the upper limit on n
ValidateShamirParamsNoUpper(n, k) ==
    IF k < 2 THEN "threshold-too-small"
    ELSE IF k > n THEN "threshold-exceeds-total"
    ELSE "ok"

ValidateShamirParams(n, k) ==
    IF k < 2 THEN "threshold-too-small"
    ELSE IF k > n THEN "threshold-exceeds-total"
    ELSE IF n > 255 THEN "too-many-shares"
    ELSE "ok"

\* the polynomial with the given intercept and degree random coefficients
makePolynomial(intercept, degree, rnd) == <<intercept>> \o SubSeq(rnd, 1, degree)

\* a share built from polynomials of degree k-2, one coefficient too few
ShareOfLowDegree(secret, k, coeffs, i) ==
    <<i>> \o [j \in 1..Len(secret) |->
                evaluate(makePolynomial(secret[j], k - 2, coeffs[j]), i)]

\* share i of secret: the index byte, then each byte's polynomial (degree
\* k-1, random coefficients coeffs[j]) evaluated at x = i
ShareOf(secret, k, coeffs, i) ==
    <<i>> \o [j \in 1..Len(secret) |->
                evaluate(makePolynomial(secret[j], k - 1, coeffs[j]), i)]

SplitShares(secret, n, k, coeffs) ==
    [i \in 1..n |-> ShareOf(secret, k, coeffs, i)]

Split(secret, n, k, coeffs) ==
    IF ValidateShamirParams(n, k) # "ok"
    THEN [err |-> "invalid-params", shares |-> <<>>]
    ELSE IF Len(secret) = 0
    THEN [err |-> "invalid-params", shares |-> <<>>]
    ELSE [err |-> "ok", shares |-> SplitShares(secret, n, k, coeffs)]

\* Lagrange interpolation at x = 0 through the points (xs[i], ys[i])
RECURSIVE LagrangeBasis(_, _, _)
LagrangeBasis(xs, i, j) ==
    IF j > Len(xs) THEN 1
    ELSE IF j = i THEN LagrangeBasis(xs, i, j + 1)
    ELSE gfMult(gfDiv(xs[j], gfAdd(xs[i], xs[j])), LagrangeBasis(xs, i, j + 1))

RECURSIVE InterpolateFrom(_, _, _)
InterpolateFrom(xs, ys, i) ==
    IF i > Len(xs) THEN 0
    ELSE gfAdd(gfMult(ys[i], LagrangeBasis(xs, i, 1)),
               InterpolateFrom(xs, ys, i + 1))

interpolatePolynomial(xs, ys) == InterpolateFrom(xs, ys, 1)

\* Combine of raw shares (index byte, then evaluations)
Combine(parts) ==
    IF Len(parts) < 2
    THEN [err |-> "insufficient", secret |-> <<>>]
    ELSE IF Len(parts[1]) < 2
            \/ \E i \in DOMAIN parts : Len(parts[i]) # Len(parts[1])
    THEN [err |-> "corrupt", secret |-> <<>>]
    ELSE IF \E i, j \in DOMAIN parts : i # j /\ parts[i][1] = parts[j][1]
    THEN [err |-> "duplicate-index", secret |-> <<>>]
    ELSE LET xs == [i \in DOMAIN parts |-> parts[i][1]]
         IN  [err |-> "ok",
              secret |-> [j \in 1..(Len(parts[1]) - 1) |->
                  interpolatePolynomial(xs, [i \in DOMAIN parts |-> parts[i][j + 1]])]]

(***************************************************************************)
(* Standard base64 (encoding/base64 StdEncoding) over text.                *)
(***************************************************************************)
B64StdChars ==
    <<"A", "B", "C", "D", "E", "F", "G", "H", "I", "J", "K", "L", "M", "N", "O",
      "P", "Q", "R", "S", "T", "U", "V", "W", "X", "Y", "Z", "a", "b", "c", "d",
      "e", "f", "g", "h", "i", "j", "k", "l", "m", "n", "o", "p", "q", "r", "s",
      "t", "u", "v", "w", "x", "y", "z", "0", "1", "2", "3", "4", "5", "6", "7",
      "8", "9", "+", "/">>

B64StdSet == Range(B64StdChars)

B64StdVal == [c \in B64StdSet |-> (CHOOSE i \in 1..64 : B64StdChars[i] = c) - 1]

\* the 4 characters of one 3-byte group; a group of 1 or 2 bytes is padded
B64EncodeGroup(g) ==
    LET b1 == g[1]
        b2 == IF Len(g) >= 2 THEN g[2] ELSE 0
        b3 == IF Len(g) >= 3 THEN g[3] ELSE 0
        c1 == B64StdChars[(b1 \div 4) + 1]
        c2 == B64StdChars[((b1 % 4) * 16 + (b2 \div 16)) + 1]
        c3 == B64StdChars[((b2 % 16) * 4 + (b3 \div 64)) + 1]
        c4 == B64StdChars[(b3 % 64) + 1]
    IN  IF Len(g) = 1 THEN <<c1, c2, "=", "=">>
        ELSE IF Len(g) = 2 THEN <<c1, c2, c3, "=">>
        ELSE <<c1, c2, c3, c4>>

\* every group of 3 bytes, and the shorter group that remains, is encoded
StdEncodeToString(b) ==
    Flatten([g \in 1..((Len(b) + 2) \div 3) |->
                B64EncodeGroup(SubSeq(b, 3 * g - 2, Min(3 * g, Len(b))))])

\* one quantum of 4 characters; final tells whether padding may occur in it
B64DecodeQuantum(q, final) ==
    LET pad3 == q[3] = "="
        pad4 == q[4] = "="
        v(i) == B64StdVal[q[i]]
    IN  IF q[1] \notin B64StdSet \/ q[2] \notin B64StdSet
        THEN [ok |-> FALSE, bytes |-> <<>>]
        ELSE IF pad3
        THEN IF final /\ pad4
             THEN [ok |-> TRUE, bytes |-> <<v(1) * 4 + (v(2) \div 16)>>]
             ELSE [ok |-> FALSE, bytes |-> <<>>]
        ELSE IF q[3] \notin B64StdSet
        THEN [ok |-> FALSE, bytes |-> <<>>]
        ELSE IF pad4
        THEN IF final
             THEN [ok |-> TRUE,
                   bytes |-> <<v(1) * 4 + (v(2) \div 16),
                               (v(2) % 16) * 16 + (v(3) \div 4)>>]
             ELSE [ok |-> FALSE, bytes |-> <<>>]
        ELSE IF q[4] \notin B64StdSet
        THEN [ok |-> FALSE, bytes |-> <<>>]
        ELSE [ok |-> TRUE,
              bytes |-> <<v(1) * 4 + (v(2) \div 16),
                          (v(2) % 16) * 16 + (v(3) \div 4),
                          (v(3) % 4) * 64 + v(4)>>]

\* the quanta of 4 characters are decoded in order; text that is not
\* made of whole quanta, or has a quantum that does not decode, is refused
B64JoinQuanta(qs) ==
    IF \E g \in DOMAIN qs : ~qs[g].ok
    THEN [ok |-> FALSE, bytes |-> <<>>]
    ELSE [ok |-> TRUE, bytes |-> Flatten([g \in DOMAIN qs |-> qs[g].bytes])]

B64DecodeQuanta(t) ==
    IF Len(t) % 4 # 0 THEN [ok |-> FALSE, bytes |-> <<>>]
    ELSE B64JoinQuanta([g \in 1..(Len(t) \div 4) |->
                          B64DecodeQuantum(SubSeq(t, 4 * g - 3, 4 * g),
                                           g = Len(t) \div 4)])

\* DecodeString ignores carriage returns and newlines, requires padding
StdDecodeString(s) ==
    B64DecodeQuanta(SelectSeq(s, LAMBDA c : c \notin {"\r", "\n"}))

(***************************************************************************)
(* Hashing.  Sum256 stands for crypto/sha256: a fixed-width digest that is *)
(* a function of all the bytes; any change of a single byte changes it.    *)
(***************************************************************************)
HexChars ==
    <<"0", "1", "2", "3", "4", "5", "6", "7", "8", "9", "a", "b", "c", "d", "e",
      "f">>

\* the state h of the digest after the bytes b: one step per byte, the
\* first half of b before the second
RECURSIVE Sum16(_, _, _)
Sum16(b, h, m) ==
    IF h < 0 \/ Len(b) = 0 THEN h
    ELSE IF Len(b) = 1 THEN (h * m + b[1] + 1) % 65536
    ELSE Sum16(SubSeq(b, (Len(b) \div 2) + 1, Len(b)),
               Sum16(SubSeq(b, 1, Len(b) \div 2), h, m), m)

Sum256(b) ==
    LET h1 == Sum16(b, 27145, 31)
        h2 == Sum16(b, 48103, 131)
    IN  <<h1 \div 256, h1 % 256, h2 \div 256, h2 % 256>>

\* hex.EncodeToString: lowercase, two characters per byte
EncodeToString(b) ==
    Flatten([i \in DOMAIN b |-> <<HexChars[(b[i] \div 16) + 1], HexChars[(b[i] % 16) + 1]>>])

HashBytes(b) == <<"s", "h", "a", "2", "5", "6", ":">> \o EncodeToString(Sum256(b))

(***************************************************************************)
(* Text helpers (package strings, strconv, time) over character sequences. *)
(***************************************************************************)
Digits == <<"0", "1", "2", "3", "4", "5", "6", "7", "8", "9">>

DigitSet == Range(Digits)

DigitVal == [c \in DigitSet |-> (CHOOSE i \in 1..10 : Digits[i] = c) - 1]

WhiteSpace == {" ", "\t", "\n", "\r"}

\* does sub occur in s at (1-based) position i
MatchAt(s, sub, i) ==
    /\ i + Len(sub) - 1 <= Len(s)
    /\ SubSeq(s, i, i + Len(sub) - 1) = sub

\* strings.Index: 0-based position of the first occurrence, -1 if none
Index(s, sub) ==
    LET hits == {i \in 1..(Len(s) - Len(sub) + 1) :
                    (Len(sub) > 0 => s[i] = sub[1]) /\ MatchAt(s, sub, i)}
    IN  IF Len(sub) = 0 THEN 0
        ELSE IF hits = {} THEN -1
        ELSE (CHOOSE i \in hits : \A j \in hits : i <= j) - 1

\* strings.TrimSpace
TrimSpace(s) ==
    IF \A i \in DOMAIN s : s[i] \in WhiteSpace THEN <<>>
    ELSE LET lo == CHOOSE i \in DOMAIN s :
                      s[i] \notin WhiteSpace /\ \A j \in 1..(i - 1) : s[j] \in WhiteSpace
             hi == CHOOSE i \in DOMAIN s :
                      s[i] \notin WhiteSpace /\ \A j \in (i + 1)..Len(s) : s[j] \in WhiteSpace
         IN  SubSeq(s, lo, hi)

\* the pieces of s from position from on, cut at the positions nl
RECURSIVE SplitAt(_, _, _)
SplitAt(s, from, nl) ==
    IF nl = {} THEN <<SubSeq(s, from, Len(s))>>
    ELSE LET p == CHOOSE i \in nl : \A j \in nl : i <= j
         IN  <<SubSeq(s, from, p - 1)>> \o SplitAt(s, p + 1, nl \ {p})

\* strings.Split(s, "\n")
SplitLines(s) == SplitAt(s, 1, {i \in DOMAIN s : s[i] = "\n"})

\* strings.SplitN(s, sep, 2)
SplitN2(s, sep) ==
    LET i == Index(s, sep)
    IN  IF i = -1 THEN <<s>>
        ELSE <<SubSeq(s, 1, i), SubSeq(s, i + Len(sep) + 1, Len(s))>>

\* strings.Join(lines, sep)
RECURSIVE Join(_, _)
Join(lines, sep) ==
    IF Len(lines) = 0 THEN <<>>
    ELSE IF Len(lines) = 1 THEN lines[1]
    ELSE lines[1] \o sep \o Join(Tail(lines), sep)

RECURSIVE DigitsValue(_, _)
DigitsValue(ds, acc) ==
    IF Len(ds) = 0 THEN acc ELSE DigitsValue(Tail(ds), acc * 10 + DigitVal[Head(ds)])

\* strconv.Atoi: optional sign, then one or more decimal digits (numerals
\* here are short, far from the range limit of int)
Atoi(v) ==
    LET signed == Len(v) > 0 /\ v[1] \in {"+", "-"}
        ds == IF signed THEN Tail(v) ELSE v
    IN  IF Len(ds) = 0 \/ \E i \in DOMAIN ds : ds[i] \notin DigitSet
        THEN [ok |-> FALSE, v |-> 0]
        ELSE [ok |-> TRUE,
              v |-> IF signed /\ v[1] = "-" THEN 0 - DigitsValue(ds, 0)
                    ELSE DigitsValue(ds, 0)]

RECURSIVE NatText(_)
NatText(n) ==
    IF n < 10 THEN <<Digits[n + 1]>> ELSE NatText(n \div 10) \o <<Digits[(n % 10) + 1]>>

\* strconv.Itoa
Itoa(n) == IF n < 0 THEN <<"-">> \o NatText(0 - n) ELSE NatText(n)

DaysIn(y, m) ==
    IF m \in {4, 6, 9, 11} THEN 30
    ELSE IF m # 2 THEN 31
    ELSE IF (y % 4 = 0 /\ y % 100 # 0) \/ y % 400 = 0 THEN 29
    ELSE 28

\* time.Parse(time.RFC3339, v) for timestamps without fractional seconds:
\* YYYY-MM-DDTHH:MM:SS followed by Z or a numeric offset
ParseRFC3339(v) ==
    LET num(i, j) == DigitsValue(SubSeq(v, i, j), 0)
        digitsAt(P) == \A i \in P : v[i] \in DigitSet
        shape == /\ Len(v) \in {20, 25}
                 /\ digitsAt({1, 2, 3, 4, 6, 7, 9, 10, 12, 13, 15, 16, 18, 19})
                 /\ v[5] = "-" /\ v[8] = "-" /\ v[11] = "T"
                 /\ v[14] = ":" /\ v[17] = ":"
                 /\ IF Len(v) = 20 THEN v[20] = "Z"
                    ELSE /\ v[20] \in {"+", "-"}
                         /\ digitsAt({21, 22, 24, 25})
                         /\ v[23] = ":"
    IN  IF ~shape THEN [ok |-> FALSE, t |-> <<>>]
        ELSE IF \/ num(6, 7) \notin 1..12
                \/ num(9, 10) \notin 1..DaysIn(num(1, 4), num(6, 7))
                \/ num(12, 13) > 23 \/ num(15, 16) > 59 \/ num(18, 19) > 59
                \/ (Len(v) = 25 /\ (num(21, 22) > 23 \/ num(24, 25) > 59))
        THEN [ok |-> FALSE, t |-> <<>>]
        ELSE [ok |-> TRUE,
              t |-> <<num(1, 4), num(6, 7), num(9, 10), num(12, 13), num(15, 16),
                      num(18, 19),
                      IF Len(v) = 20 THEN 0
                      ELSE (IF v[20] = "-" THEN -1 ELSE 1)
                               * (num(21, 22) * 60 + num(24, 25))>>]

(***************************************************************************)
(* parseShare (WASM): the long-form share block inside a text.             *)
(***************************************************************************)
shareBegin ==
    <<"-", "-", "-", "-", "-", "B", "E", "G", "I", "N", " ", "R", "E", "M", "E",
      "M", "O", "R", "Y", " ", "S", "H", "A", "R", "E", "-", "-", "-", "-", "-">>

shareEnd ==
    <<"-", "-", "-", "-", "-", "E", "N", "D", " ", "R", "E", "M", "E", "M", "O",
      "R", "Y", " ", "S", "H", "A", "R", "E", "-", "-", "-", "-", "-">>

KeyVersion == <<"V", "e", "r", "s", "i", "o", "n">>
KeyIndex == <<"I", "n", "d", "e", "x">>
KeyTotal == <<"T", "o", "t", "a", "l">>
KeyThreshold == <<"T", "h", "r", "e", "s", "h", "o", "l", "d">>
KeyHolder == <<"H", "o", "l", "d", "e", "r">>
KeyCreated == <<"C", "r", "e", "a", "t", "e", "d">>
KeyChecksum == <<"C", "h", "e", "c", "k", "s", "u", "m">>

\* the zero value of ShareInfo
ZeroShareInfo ==
    [Version |-> 0, Index |-> 0, Total |-> 0, Threshold |-> 0, Holder |-> <<>>,
     Created |-> <<>>, Checksum |-> <<>>, DataB64 |-> <<>>]

\* one header line: the switch on the key of "key: value"
ParseHeaderLine(share, line) ==
    LET parts == SplitN2(line, <<":", " ">>)
        key == parts[1]
        value == parts[2]
        n == Atoi(value)
        t == ParseRFC3339(value)
    IN  IF Len(parts) # 2 THEN [err |-> "ok", share |-> share]
        ELSE IF key = KeyVersion
        THEN IF ~n.ok THEN [err |-> "invalid version", share |-> share]
             ELSE [err |-> "ok", share |-> [share EXCEPT !.Version = n.v]]
        ELSE IF key = KeyIndex
        THEN IF ~n.ok THEN [err |-> "invalid index", share |-> share]
             ELSE [err |-> "ok", share |-> [share EXCEPT !.Index = n.v]]
        ELSE IF key = KeyTotal
        THEN IF ~n.ok THEN [err |-> "invalid total", share |-> share]
             ELSE [err |-> "ok", share |-> [share EXCEPT !.Total = n.v]]
        ELSE IF key = KeyThreshold
        THEN IF ~n.ok THEN [err |-> "invalid threshold", share |-> share]
             ELSE [err |-> "ok", share |-> [share EXCEPT !.Threshold = n.v]]
        ELSE IF key = KeyHolder
        THEN [err |-> "ok", share |-> [share EXCEPT !.Holder = value]]
        ELSE IF key = KeyCreated
        THEN IF ~t.ok THEN [err |-> "invalid created time", share |-> share]
             ELSE [err |-> "ok", share |-> [share EXCEPT !.Created = t.t]]
        ELSE IF key = KeyChecksum
        THEN [err |-> "ok", share |-> [share EXCEPT !.Checksum = value]]
        ELSE [err |-> "ok", share |-> share]

\* the loop over the lines of the block; st carries share, dataLines, inData
RECURSIVE ParseLines(_, _, _)
ParseLines(lines, i, st) ==
    IF i > Len(lines) THEN st
    ELSE LET line == TrimSpace(lines[i])
             h == ParseHeaderLine(st.share, line)
         IN  IF line = <<>>
             THEN ParseLines(lines, i + 1, [st EXCEPT !.inData = TRUE])
             ELSE IF st.inData
             THEN ParseLines(lines, i + 1, [st EXCEPT !.dataLines = Append(@, line)])
             ELSE IF h.err # "ok" THEN [st EXCEPT !.err = h.err]
             ELSE ParseLines(lines, i + 1, [st EXCEPT !.share = h.share])

\* the validation of the required fields at the end of parseShare
ValidateRequired(share) ==
    IF share.Version = 0 THEN "missing version"
    ELSE IF share.Index = 0 THEN "missing index"
    ELSE IF share.Total = 0 THEN "missing total"
    ELSE IF share.Threshold = 0 THEN "missing threshold"
    ELSE IF share.DataB64 = <<>> THEN "missing share data"
    ELSE "ok"

parseShare(content) ==
    LET beginIdx == Index(content, shareBegin)
        endIdx == Index(content, shareEnd)
        inner == SubSeq(content, beginIdx + Len(shareBegin) + 1, endIdx)
        lines == SplitLines(TrimSpace(inner))
        st == ParseLines(lines, 1,
                  [err |-> "ok", share |-> ZeroShareInfo,
                   dataLines |-> <<>>, inData |-> FALSE])
        dataStr == Join(st.dataLines, <<>>)
        share == [st.share EXCEPT !.DataB64 = dataStr]
    IN  IF beginIdx = -1 \/ endIdx = -1 \/ endIdx <= beginIdx
        THEN [err |-> "no share found in content", share |-> ZeroShareInfo]
        ELSE IF beginIdx + Len(shareBegin) > endIdx
        THEN [err |-> "panic: slice bounds out of range", share |-> ZeroShareInfo]
        ELSE IF st.err # "ok" THEN [err |-> st.err, share |-> ZeroShareInfo]
        ELSE IF ~StdDecodeString(dataStr).ok
        THEN [err |-> "invalid base64 data", share |-> ZeroShareInfo]
        ELSE IF ValidateRequired(share) # "ok"
        THEN [err |-> ValidateRequired(share), share |-> ZeroShareInfo]
        ELSE [err |-> "ok", share |-> share]

(***************************************************************************)
(* The share object and its long form (Share.Encode):                      *)
(*   begin sentinel, "Key: value" header lines, a blank line, the base64   *)
(*   payload in lines of at most 64 characters, end sentinel.              *)
(***************************************************************************)
CreatedAtSeal == <<"2", "0", "2", "6", "-", "0", "1", "-", "0", "1", "T", "0", "0", ":", "0", "0", ":", "0", "0", "Z">>

\* NewShare(index, total, threshold, holder, data)
NewShare(index, total, threshold, holder, data) ==
    [Version |-> 1, Index |-> index, Total |-> total, Threshold |-> threshold,
     Holder |-> holder, Created |-> CreatedAtSeal, Data |-> data,
     Checksum |-> HashBytes(data)]

\* text cut into lines of at most w characters
RECURSIVE WrapLines(_, _)
WrapLines(t, w) ==
    IF Len(t) <= w THEN <<t>>
    ELSE <<SubSeq(t, 1, w)>> \o WrapLines(SubSeq(t, w + 1, Len(t)), w)

\* the parts of a long-form document: header lines in emit order, payload lines
LongDoc(share) ==
    [headers |-> << <<KeyVersion, Itoa(share.Version)>>,
                    <<KeyIndex, Itoa(share.Index)>>,
                    <<KeyTotal, Itoa(share.Total)>>,
                    <<KeyThreshold, Itoa(share.Threshold)>>,
                    <<KeyHolder, share.Holder>>,
                    <<KeyCreated, share.Created>>,
                    <<KeyChecksum, share.Checksum>> >>,
     payload |-> WrapLines(StdEncodeToString(share.Data), 64)]

\* the text of a document
Render(doc) ==
    shareBegin \o <<"\n">>
    \o Flatten([i \in DOMAIN doc.headers |->
                  doc.headers[i][1] \o <<":", " ">> \o doc.headers[i][2] \o <<"\n">>])
    \o <<"\n">>
    \o Flatten([i \in DOMAIN doc.payload |-> doc.payload[i] \o <<"\n">>])
    \o shareEnd \o <<"\n">>

\* Share.Encode
Encode(share) == Render(LongDoc(share))

(***************************************************************************)
(* Edits of a long-form document, as a holder's copy may have suffered.    *)
(***************************************************************************)
SetHeader(doc, key, value) ==
    [doc EXCEPT !.headers =
        [i \in DOMAIN doc.headers |->
            IF doc.headers[i][1] = key THEN <<key, value>> ELSE doc.headers[i]]]

DropHeader(doc, key) ==
    [doc EXCEPT !.headers = SelectSeq(doc.headers, LAMBDA h : h[1] # key)]

HeaderValue(doc, key) ==
    (CHOOSE i \in DOMAIN doc.headers : doc.headers[i][1] = key) [2]

\* character p of the first payload line replaced by c
SetPayloadChar(doc, p, c) ==
    [doc EXCEPT !.payload[1][p] = c]

\* another character of the same alphabet
OtherHex(c) == IF c = "0" THEN "1" ELSE "0"
OtherB64(c) == IF c = "A" THEN "B" ELSE "A"

\* the last character of text t replaced
FlipLast(t) == [t EXCEPT ![Len(t)] = OtherHex(t[Len(t)])]

\* the edited documents of a share, by the name of the edit
Tampered(share) ==
    LET d == LongDoc(share)
    IN  [none |-> d,
         payloadFirst |-> SetPayloadChar(d, 1, OtherB64(d.payload[1][1])),
         payloadThird |-> SetPayloadChar(d, 3, OtherB64(d.payload[1][3])),
         payloadBang |-> SetPayloadChar(d, 3, "!"),
         payloadEmpty |-> [d EXCEPT !.payload = <<>>],
         checksumFlip |-> SetHeader(d, KeyChecksum, FlipLast(share.Checksum)),
         checksumDrop |-> DropHeader(d, KeyChecksum),
         indexNext |-> SetHeader(d, KeyIndex, Itoa(share.Index + 1)),
         indexZero |-> SetHeader(d, KeyIndex, Itoa(0)),
         indexNeg |-> SetHeader(d, KeyIndex, Itoa(0 - share.Index)),
         indexWord |-> SetHeader(d, KeyIndex, <<"x">>),
         totalBig |-> SetHeader(d, KeyTotal, Itoa(256)),
         totalSmall |-> SetHeader(d, KeyTotal, Itoa(share.Index - 1)),
         thresholdOne |-> SetHeader(d, KeyThreshold, Itoa(1)),
         thresholdOver |-> SetHeader(d, KeyThreshold, Itoa(share.Total + 1)),
         thresholdDrop |-> DropHeader(d, KeyThreshold),
         versionDrop |-> DropHeader(d, KeyVersion),
         createdWord |-> SetHeader(d, KeyCreated, <<"n", "o", "w">>)]

TamperNames == DOMAIN Tampered(NewShare(1, 2, 2, <<>>, <<1, 0>>))

(***************************************************************************)
(* combineShares (WASM): base64-decode every share and combine.            *)
(***************************************************************************)
\* ShareData of a raw share
ShareDataOf(raw) == [Index |-> raw[1], DataB64 |-> StdEncodeToString(raw)]

\* combineShares whose conversion loop stops one share early
combineSharesDropLast(shares) ==
    IF Len(shares) < 2
    THEN [err |-> "need-at-least-2-shares", passphrase |-> <<>>]
    ELSE LET dec == [i \in 1..(Len(shares) - 1) |-> StdDecodeString(shares[i].DataB64)]
             c == Combine([i \in DOMAIN dec |-> dec[i].bytes])
         IN  IF \E i \in DOMAIN dec : ~dec[i].ok
             THEN [err |-> "decoding-share", passphrase |-> <<>>]
             ELSE IF c.err # "ok"
             THEN [err |-> "combining-shares", passphrase |-> <<>>]
             ELSE [err |-> "ok", passphrase |-> c.secret]

\* the shares whose index was not seen earlier in the list
FirstOfEachIndex(shares) ==
    SelectSeq([i \in DOMAIN shares |->
                 [share |-> shares[i],
                  seen |-> \E j \in 1..(i - 1) : shares[j].Index = shares[i].Index]],
              LAMBDA e : ~e.seen)

\* combineShares that converts only the first share of every index
combineSharesSkipsRepeats(shares) ==
    IF Len(shares) < 2
    THEN [err |-> "need-at-least-2-shares", passphrase |-> <<>>]
    ELSE LET dec == [i \in DOMAIN FirstOfEachIndex(shares) |->
                       StdDecodeString(FirstOfEachIndex(shares)[i].share.DataB64)]
             c == Combine([i \in DOMAIN dec |-> dec[i].bytes])
         IN  IF \E i \in DOMAIN dec : ~dec[i].ok
             THEN [err |-> "decoding-share", passphrase |-> <<>>]
             ELSE IF c.err # "ok"
             THEN [err |-> "combining-shares", passphrase |-> <<>>]
             ELSE [err |-> "ok", passphrase |-> c.secret]

combineShares(shares) ==
    IF Len(shares) < 2
    THEN [err |-> "need-at-least-2-shares", passphrase |-> <<>>]
    ELSE LET dec == [i \in DOMAIN shares |-> StdDecodeString(shares[i].DataB64)]
             c == Combine([i \in DOMAIN dec |-> dec[i].bytes])
         IN  IF \E i \in DOMAIN dec : ~dec[i].ok
             THEN [err |-> "decoding-share", passphrase |-> <<>>]
             ELSE IF c.err # "ok"
             THEN [err |-> "combining-shares", passphrase |-> <<>>]
             ELSE [err |-> "ok", passphrase |-> c.secret]

(***************************************************************************)
(* Passphrase encryption (age, scrypt recipient).  A ciphertext is the     *)
(* plaintext sealed under a passphrase: it opens under that passphrase     *)
(* and under no other.                                                     *)
(***************************************************************************)
\* bytes that are no age file
NotAge == [age |-> FALSE]

\* crypto.Encrypt
Encrypt(plaintext, passphrase) ==
    IF passphrase = <<>>
    THEN [err |-> "empty-passphrase", ciphertext |-> NotAge]
    ELSE [err |-> "ok",
          ciphertext |-> [age |-> TRUE, passphrase |-> passphrase,
                          plaintext |-> plaintext]]

\* decryptManifest opening an age file under any passphrase
decryptManifestUnauthenticated(encryptedData, passphrase) ==
    IF passphrase = <<>>
    THEN [err |-> "creating identity", plaintext |-> <<>>]
    ELSE IF ~encryptedData.age
    THEN [err |-> "decrypting", plaintext |-> <<>>]
    ELSE [err |-> "ok", plaintext |-> encryptedData.plaintext]

\* decryptManifest (WASM)
decryptManifest(encryptedData, passphrase) ==
    IF passphrase = <<>>
    THEN [err |-> "creating identity", plaintext |-> <<>>]
    ELSE IF ~encryptedData.age \/ encryptedData.passphrase # passphrase
    THEN [err |-> "decrypting", plaintext |-> <<>>]
    ELSE [err |-> "ok", plaintext |-> encryptedData.plaintext]

(***************************************************************************)
(* Archive codec.  A tar.gz stream is its sequence of tar entries (name,   *)
(* type flag, declared size, content); bytes that are no gzip stream are   *)
(* NotGzip.                                                                *)
(***************************************************************************)
MaxFileSize == 100 * 1024 * 1024
MaxTotalSize == 1024 * 1024 * 1024

NotGzip == [gzip |-> FALSE, entries |-> <<>>]

\* PackTarGz: regular files only, in the given order
PackTarGz(files) ==
    [gzip |-> TRUE,
     entries |-> [i \in DOMAIN files |->
                    [Name |-> files[i].Name, Typeflag |-> "reg",
                     Size |-> Len(files[i].Data), Data |-> files[i].Data]]]

\* the regular expression ^\.\./ : only a leading ".." segment
pathTraversalLeading(name) ==
    Len(name) >= 3 /\ SubSeq(name, 1, 3) = <<".", ".", "/">>

\* the regular expression (^|/)\.\.(/|$)
pathTraversal(name) ==
    \E i \in 1..(Len(name) - 1) :
        /\ name[i] = "." /\ name[i + 1] = "."
        /\ (i = 1 \/ name[i - 1] = "/")
        /\ (i + 1 = Len(name) \/ name[i + 2] = "/")

\* the loop of extractTarGz over the entries from entry i on
RECURSIVE ExtractLoop(_, _, _, _)
ExtractLoop(entries, i, files, totalSize) ==
    IF i > Len(entries)
    THEN IF Len(files) = 0 THEN [err |-> "empty archive", files |-> <<>>]
         ELSE [err |-> "ok", files |-> files]
    ELSE LET header == entries[i]
         IN  IF pathTraversal(header.Name)
             THEN [err |-> "archive contains invalid path", files |-> <<>>]
             ELSE IF header.Typeflag # "reg"
             THEN ExtractLoop(entries, i + 1, files, totalSize)
             ELSE IF header.Size > MaxFileSize
             THEN [err |-> "file exceeds maximum allowed size", files |-> <<>>]
             ELSE IF totalSize + header.Size > MaxTotalSize
             THEN [err |-> "archive exceeds maximum total size", files |-> <<>>]
             ELSE ExtractLoop(entries, i + 1,
                      Append(files, [Name |-> header.Name, Data |-> header.Data]),
                      totalSize + header.Size)

\* extractTarGz that forgets the last entry of the archive
extractTarGzShort(tarGzData) ==
    IF ~tarGzData.gzip THEN [err |-> "creating gzip reader", files |-> <<>>]
    ELSE ExtractLoop(SubSeq(tarGzData.entries, 1, Len(tarGzData.entries) - 1),
                     1, <<>>, 0)

\* extractTarGz (WASM)
extractTarGz(tarGzData) ==
    IF ~tarGzData.gzip THEN [err |-> "creating gzip reader", files |-> <<>>]
    ELSE ExtractLoop(tarGzData.entries, 1, <<>>, 0)

(***************************************************************************)
(* Recover pipeline and seal engine.                                       *)
(***************************************************************************)
\* ShareData of a parsed share
ShareDataOfInfo(info) == [Index |-> info.Index, DataB64 |-> info.DataB64]

\* combine, then decrypt, then extract; combined and decrypted tell which
\* steps were entered
RecoverPipeline(shareData, ciphertext) ==
    LET c == combineShares(shareData)
        d == decryptManifest(ciphertext, c.passphrase)
        e == extractTarGz(d.plaintext)
    IN  IF c.err # "ok"
        THEN [err |-> "combine-failed", files |-> <<>>,
              combined |-> TRUE, decrypted |-> FALSE]
        ELSE IF d.err # "ok"
        THEN [err |-> "wrong-passphrase", files |-> <<>>,
              combined |-> TRUE, decrypted |-> TRUE]
        ELSE IF e.err # "ok"
        THEN [err |-> "archive-failed", files |-> <<>>,
              combined |-> TRUE, decrypted |-> TRUE]
        ELSE [err |-> "ok", files |-> e.files,
              combined |-> TRUE, decrypted |-> TRUE]

HolderList == <<<<"A", "l">>, <<"B", "o">>, <<"C", "a">>, <<"D", "i">>, <<"E", "d">>>>

\* Seal(files, holders, N, K) with the passphrase and the random
\* coefficients drawn: archive, encrypt, split, label, self-verify
Seal(files, n, k, passphrase, coeffs) ==
    LET archive == PackTarGz(files)
        enc == Encrypt(archive, passphrase)
        sp == Split(passphrase, n, k, coeffs)
        shares == [i \in 1..n |-> NewShare(i, n, k, HolderList[i], sp.shares[i])]
        test == RecoverPipeline(
                    [i \in 1..k |-> [Index |-> shares[i].Index,
                                     DataB64 |-> StdEncodeToString(shares[i].Data)]],
                    enc.ciphertext)
        failed(e) == [err |-> e, ciphertext |-> NotAge, shares |-> <<>>]
    IN  IF enc.err # "ok" THEN failed("encrypt-failed")
        ELSE IF sp.err # "ok" THEN failed(sp.err)
        ELSE IF test.err # "ok" \/ test.files # files THEN failed("seal-self-test")
        ELSE [err |-> "ok", ciphertext |-> enc.ciphertext, shares |-> shares]

(***************************************************************************)
(* Recover engine: the session.                                            *)
(***************************************************************************)
NoCiphertext == [age |-> FALSE, attached |-> FALSE]

EmptySession == [shares |-> <<>>, ciphertext |-> NoCiphertext]

\* the progress tuple (collected, threshold, total)
Progress(sess) ==
    IF Len(sess.shares) = 0 THEN <<0, 0, 0>>
    ELSE <<Len(sess.shares), sess.shares[1].Threshold, sess.shares[1].Total>>

\* the checks of AddShare without the duplicate-index check
AdmitNoDuplicateCheck(sess, r) ==
    IF r.err # "ok"
    THEN [err |-> "not-well-formed", share |-> r.share, session |-> sess]
    ELSE IF /\ Len(sess.shares) > 0
            /\ \/ sess.shares[1].Total # r.share.Total
               \/ sess.shares[1].Threshold # r.share.Threshold
    THEN [err |-> "cohort-mismatch", share |-> r.share, session |-> sess]
    ELSE [err |-> "ok", share |-> r.share,
          session |-> [sess EXCEPT !.shares = Append(@, r.share)]]

\* the checks of AddShare comparing only the total with the cohort
AdmitTotalOnly(sess, r) ==
    IF r.err # "ok"
    THEN [err |-> "not-well-formed", share |-> r.share, session |-> sess]
    ELSE IF \E i \in DOMAIN sess.shares : sess.shares[i].Index = r.share.Index
    THEN [err |-> "duplicate-index", share |-> r.share, session |-> sess]
    ELSE IF /\ Len(sess.shares) > 0
            /\ sess.shares[1].Total # r.share.Total
    THEN [err |-> "cohort-mismatch", share |-> r.share, session |-> sess]
    ELSE [err |-> "ok", share |-> r.share,
          session |-> [sess EXCEPT !.shares = Append(@, r.share)]]

\* the checks of AddShare on the outcome r of parsing the blob:
\* not-well-formed, then duplicate-index, then cohort-mismatch
Admit(sess, r) ==
    IF r.err # "ok"
    THEN [err |-> "not-well-formed", share |-> r.share, session |-> sess]
    ELSE IF \E i \in DOMAIN sess.shares : sess.shares[i].Index = r.share.Index
    THEN [err |-> "duplicate-index", share |-> r.share, session |-> sess]
    ELSE IF /\ Len(sess.shares) > 0
            /\ \/ sess.shares[1].Total # r.share.Total
               \/ sess.shares[1].Threshold # r.share.Threshold
    THEN [err |-> "cohort-mismatch", share |-> r.share, session |-> sess]
    ELSE [err |-> "ok", share |-> r.share,
          session |-> [sess EXCEPT !.shares = Append(@, r.share)]]

\* AddShare: parse the blob, then admit the share
AddShare(sess, blob) == Admit(sess, parseShare(blob))

SetCiphertext(sess, bytes) == [sess EXCEPT !.ciphertext = bytes]

\* Ready with > in place of >=
ReadyStrict(sess) ==
    /\ Len(sess.shares) > 0
    /\ Len(sess.shares) > sess.shares[1].Threshold
    /\ sess.ciphertext # NoCiphertext

Ready(sess) ==
    /\ Len(sess.shares) > 0
    /\ Len(sess.shares) >= sess.shares[1].Threshold
    /\ sess.ciphertext # NoCiphertext

\* Recover leaving out the share collected first
RecoverSkipFirst(sess) ==
    IF ~Ready(sess)
    THEN [err |-> "not-ready", files |-> <<>>,
          combined |-> FALSE, decrypted |-> FALSE]
    ELSE RecoverPipeline([i \in 1..(Len(sess.shares) - 1) |->
                             ShareDataOfInfo(sess.shares[i + 1])],
                         sess.ciphertext)

Recover(sess) ==
    IF ~Ready(sess)
    THEN [err |-> "not-ready", files |-> <<>>,
          combined |-> FALSE, decrypted |-> FALSE]
    ELSE RecoverPipeline([i \in DOMAIN sess.shares |-> ShareDataOfInfo(sess.shares[i])],
                         sess.ciphertext)

(***************************************************************************)
(* Specification SpecShamir: Split a secret, then combine a selection of   *)
(* the shares taken in any order.                                          *)
(***************************************************************************)
Secrets == SeqsOf(SecretBytes, 1, MaxSecretLen)

\* one coefficient sequence of length k-1 per secret byte
CoeffChoices(len, k) == [1..len -> [1..(k - 1) -> CoeffBytes]]

ShamOff == [pc |-> "off"]
SecOff == [pc |-> "off"]
PrsOff == [pc |-> "off"]
EngineOff ==
    /\ project = [state |-> "off"]
    /\ session = [state |-> "off"]
    /\ last = [op |-> "off"]

ShamirInit ==
    /\ \E secret \in Secrets, n \in 2..MaxN :
         \E k \in 2..n :
            sham = [pc |-> "start", secret |-> secret, n |-> n, k |-> k,
                    err |-> "none", shares |-> <<>>,
                    picked |-> <<>>, result |-> [err |-> "none", passphrase |-> <<>>]]
    /\ sec = SecOff
    /\ prs = PrsOff
    /\ EngineOff

\* Split(secret, n, k) with the random coefficients drawn
SplitStep ==
    /\ sham.pc = "start"
    /\ \E coeffs \in CoeffChoices(Len(sham.secret), sham.k) :
         LET r == Split(sham.secret, sham.n, sham.k, coeffs)
         IN  sham' = [sham EXCEPT !.pc = "split", !.err = r.err, !.shares = r.shares]
    /\ UNCHANGED <<sec, prs, engineVars>>

\* combineShares on any selection of the shares, in any order
CombineStep ==
    /\ sham.pc = "split"
    /\ sham.err = "ok"
    /\ \E picked \in Arrangements(1..sham.n, 0, sham.n) :
         sham' = [sham EXCEPT
                    !.pc = "combined",
                    !.picked = picked,
                    !.result = combineShares(
                        [i \in DOMAIN picked |-> ShareDataOf(sham.shares[picked[i]])])]
    /\ UNCHANGED <<sec, prs, engineVars>>

ShamirNext == SplitStep \/ CombineStep

SpecShamir == ShamirInit /\ [][ShamirNext]_vars

\* C2: Split returns exactly N shares, and combining any K of them, in any
\* order, returns the secret.
ShamirRoundTrip ==
    /\ sham.pc \in {"split", "combined"} =>
          /\ sham.err = "ok"
          /\ Len(sham.shares) = sham.n
    /\ (sham.pc = "combined" /\ Len(sham.picked) = sham.k) =>
          /\ sham.result.err = "ok"
          /\ sham.result.passphrase = sham.secret

\* K of N > K shares, taken out of order, gave back a two-byte secret
ShamirRoundTripWitness ==
    /\ sham.pc = "combined"
    /\ sham.k < sham.n
    /\ Len(sham.picked) = sham.k
    /\ sham.picked[1] > sham.picked[2]
    /\ Len(sham.secret) = 2
    /\ sham.secret[1] # sham.secret[2]
    /\ sham.shares[1] # sham.shares[2]
    /\ sham.result.passphrase = sham.secret

(***************************************************************************)
(* Specification SpecSecrecy: what the holders of fewer than K shares can  *)
(* see of two secrets.                                                     *)
(***************************************************************************)
\* every choice of the random coefficients (all byte values)
AllCoeffs(len, k) == [1..len -> [1..(k - 1) -> 0..255]]

RECURSIVE Pow256(_)
Pow256(e) == IF e = 0 THEN 1 ELSE IF e > 3 THEN MaxViews + 1 ELSE 256 * Pow256(e - 1)

\* the shares at the indices idxs, as the coefficients range over all values
ViewSet(secret, k, idxs) ==
    {[i \in idxs |-> ShareOf(secret, k, c, i)] : c \in AllCoeffs(Len(secret), k)}

\* Split gives every secret byte a polynomial of its own, so the view sets
\* are enumerated for one-byte secrets; a pair of secrets is taken once
SecrecySecrets == {<<b>> : b \in SecretBytes}

SecrecyInit ==
    /\ sham = ShamOff
    /\ prs = PrsOff
    /\ EngineOff
    /\ \E a \in SecrecySecrets, b \in SecrecySecrets, n \in 2..MaxN :
         \E k \in 2..n :
            \E idxs \in SUBSET (1..n) :
               /\ a[1] < b[1]
               /\ Cardinality(idxs) < k
               /\ Pow256(Len(a) * (k - 1)) <= MaxViews
               /\ sec = [pc |-> "start", secretA |-> a, secretB |-> b,
                         n |-> n, k |-> k, idxs |-> idxs, view |-> <<>>]

\* secretA is split and the holders idxs receive their shares
DealStep ==
    /\ sec.pc = "start"
    /\ \E coeffs \in CoeffChoices(Len(sec.secretA), sec.k) :
         sec' = [sec EXCEPT
                   !.pc = "dealt",
                   !.view = [i \in sec.idxs |->
                               Split(sec.secretA, sec.n, sec.k, coeffs).shares[i]]]
    /\ UNCHANGED <<sham, prs, engineVars>>

SecrecyNext == DealStep

SpecSecrecy == SecrecyInit /\ [][SecrecyNext]_vars

\* C3: fewer than K shares are independent of the secret: at any fewer than
\* K indices the share values the random coefficients can produce are the
\* same set for both secrets.
FewerThanKIndependent ==
    sec.pc = "start" =>
        ViewSet(sec.secretA, sec.k, sec.idxs) = ViewSet(sec.secretB, sec.k, sec.idxs)
\* K-1 = 2 holders of a 3-of-3 split of one of two different secrets
FewerThanKIndependentWitness ==
    /\ sec.pc = "dealt"
    /\ sec.k = 3
    /\ Cardinality(sec.idxs) = 2
    /\ sec.secretA # sec.secretB
    /\ \A i \in sec.idxs : sec.view[i][1] = i /\ sec.view[i][2] # sec.secretA[1]

(***************************************************************************)
(* Specification SpecParse: one text is handed to parseShare.              *)
(***************************************************************************)
\* evaluation bytes following the index byte of a share payload
PayloadBodies == {<<7>>, <<255, 0>>}

HolderNames == {<<>>, <<"A", "l">>}

ParseShares ==
    {NewShare(i, n, k, h, <<i>> \o b) :
        i \in 1..MaxN, n \in 2..MaxN, k \in 2..MaxN, h \in HolderNames,
        b \in PayloadBodies}

ParseInit ==
    /\ sham = ShamOff
    /\ sec = SecOff
    /\ EngineOff
    /\ \E share \in ParseShares, t \in TamperNames :
         /\ share.Index <= share.Total
         /\ share.Threshold <= share.Total
         /\ prs = [pc |-> "start", orig |-> share, tamper |-> t,
                   content |-> Render(Tampered(share)[t]),
                   result |-> [err |-> "none", share |-> ZeroShareInfo]]

ParseStep ==
    /\ prs.pc = "start"
    /\ prs' = [prs EXCEPT !.pc = "parsed", !.result = parseShare(prs.content)]
    /\ UNCHANGED <<sham, sec, engineVars>>

ParseNext == ParseStep

SpecParse == ParseInit /\ [][ParseNext]_vars

\* the payload bytes of a parsed share
DataOf(info) == StdDecodeString(info.DataB64).bytes

\* C8: parseShare returns no share whose Checksum header differs from the
\* digest of its decoded data.
ChecksumEnforced ==
    (prs.pc = "parsed" /\ prs.result.err = "ok") =>
        prs.result.share.Checksum = HashBytes(DataOf(prs.result.share))

\* C9: parseShare returns no share whose first payload byte differs from
\* its Index.
IndexByteEnforced ==
    (prs.pc = "parsed" /\ prs.result.err = "ok") =>
        /\ Len(DataOf(prs.result.share)) > 0
        /\ DataOf(prs.result.share)[1] = prs.result.share.Index

\* C10: every share parseShare returns has 1 <= Index <= Total,
\* 2 <= Threshold <= Total <= 255 and non-empty data.
NumericBoundsEnforced ==
    (prs.pc = "parsed" /\ prs.result.err = "ok") =>
        LET share == prs.result.share
        IN  /\ 1 <= share.Index /\ share.Index <= share.Total
            /\ 2 <= share.Threshold /\ share.Threshold <= share.Total
            /\ share.Total <= 255
            /\ Len(DataOf(share)) > 0

(***************************************************************************)
(* Specification Spec: a project is sealed, then a recover session is fed  *)
(* share blobs and ciphertexts and asked to recover.                       *)
(***************************************************************************)
FileA == [Name |-> <<"a", ".", "t", "x", "t">>, Data |-> <<104, 105>>]
FileB == [Name |-> <<"b", "/", "c">>, Data |-> <<>>]
FileEvil == [Name |-> <<".", ".", "/", "e">>, Data |-> <<0>>]

\* the directories offered to Seal
FileSets == {<<FileA>>, <<FileB, FileA>>, <<>>, <<FileA, FileEvil>>}

\* the passphrase Seal draws, and its draws of the random coefficients
SealPassphrases == {<<255>>}

SealCoeffs(len, k) == {[i \in 1..len |-> [j \in 1..(k - 1) |-> c]] : c \in CoeffBytes}

\* the text around the share in a holder's README.txt
ReadmeHead == <<"H", "i", "\n">>
ReadmeTail == <<"B", "y", "e", "\n">>

\* the holders whose copies have also suffered
DamagedHolders == {1}

BlobKinds == {"readme", "share", "corrupt", "bang", "cohort", "quorum"}

BlobKindsOf(h) == IF h \in DamagedHolders THEN BlobKinds ELSE {"readme"}

\* what a holder may drop into the session: the README, the bare share
\* file, a copy with one payload character changed (to another base64
\* character, or to "!"), a share of a cohort with one more holder, a
\* share of a cohort with a higher threshold
DamagedText(d, share, kind) ==
    IF kind = "readme" THEN ReadmeHead \o Render(d) \o ReadmeTail
    ELSE IF kind = "share" THEN Render(d)
    ELSE IF kind = "corrupt"
    THEN Render(SetPayloadChar(d, 3, OtherB64(d.payload[1][3])))
    ELSE IF kind = "bang" THEN Render(SetPayloadChar(d, 3, "!"))
    ELSE IF kind = "cohort"
    THEN Render(SetHeader(d, KeyTotal, Itoa(share.Total + 1)))
    ELSE Render(SetHeader(d, KeyThreshold, Itoa(share.Threshold + 1)))

BlobText(share, kind) == DamagedText(LongDoc(share), share, kind)

CiphertextKinds == {"manifest", "foreign", "garbage", "notarchive"}

\* the files a holder may attach: MANIFEST.age, the manifest of a project
\* sealed under another passphrase, bytes that are no age file, and an age
\* file under the same passphrase holding no archive
CiphertextBytes(proj, kind) ==
    IF kind = "manifest" THEN proj.ciphertext
    ELSE IF kind = "foreign"
    THEN Encrypt(PackTarGz(proj.files), proj.passphrase \o <<0>>).ciphertext
    ELSE IF kind = "garbage" THEN NotAge
    ELSE Encrypt(NotGzip, proj.passphrase).ciphertext

\* no call is in progress
NoResult ==
    [op |-> "none", err |-> "none", holder |-> 0, kind |-> "none",
     share |-> ZeroShareInfo, files |-> <<>>,
     combined |-> FALSE, decrypted |-> FALSE]

Init ==
    /\ sham = ShamOff
    /\ sec = SecOff
    /\ prs = PrsOff
    /\ project = [state |-> "init", err |-> "none", files |-> <<>>, n |-> 0, k |-> 0,
                  passphrase |-> <<>>, ciphertext |-> NotAge, shares |-> <<>>]
    /\ session = EmptySession
    /\ last = NoResult

\* rememory seal
SealStep ==
    /\ project.state = "init"
    /\ \E files \in FileSets, n \in 2..MaxN, passphrase \in SealPassphrases :
         \E k \in 1..n :
            \E coeffs \in SealCoeffs(Len(passphrase), k) :
               LET r == Seal(files, n, k, passphrase, coeffs)
               IN  project' =
                      IF r.err = "ok"
                      THEN [state |-> "sealed", err |-> "ok", files |-> files,
                            n |-> n, k |-> k, passphrase |-> passphrase,
                            ciphertext |-> r.ciphertext, shares |-> r.shares]
                      ELSE [project EXCEPT !.state = "failed", !.err = r.err]
    /\ UNCHANGED <<sham, sec, prs, session, last>>

\* the outcome r of AddShare on the blob of kind kind of holder h
AddShareReturns(h, kind, r) ==
    /\ session' = r.session
    /\ last' = [NoResult EXCEPT
                  !.op = "AddShare", !.err = r.err, !.holder = h,
                  !.kind = kind, !.share = r.share]

\* a holder's blob is added to the session; last holds what the call
\* returned until the page has shown it
AddShareStep ==
    /\ project.state = "sealed"
    /\ last.op = "none"
    /\ \E h \in 1..project.n :
         \E kind \in BlobKindsOf(h) :
            AddShareReturns(h, kind,
                AddShare(session, BlobText(project.shares[h], kind)))
    /\ UNCHANGED <<sham, sec, prs, project>>

SetCiphertextStep ==
    /\ project.state = "sealed"
    /\ last.op = "none"
    /\ \E kind \in CiphertextKinds :
         /\ session' = SetCiphertext(session, CiphertextBytes(project, kind))
         /\ last' = [NoResult EXCEPT !.op = "SetCiphertext", !.err = "ok", !.kind = kind]
    /\ UNCHANGED <<sham, sec, prs, project>>

RecoverStep ==
    /\ project.state = "sealed"
    /\ last.op = "none"
    /\ LET r == Recover(session)
       IN  last' = [NoResult EXCEPT
                      !.op = "Recover", !.err = r.err, !.files = r.files,
                      !.combined = r.combined, !.decrypted = r.decrypted]
    /\ UNCHANGED <<sham, sec, prs, project, session>>

\* the page has shown the outcome of the call and waits for the next one
ReturnStep ==
    /\ last.op \notin {"none", "off"}
    /\ last' = NoResult
    /\ UNCHANGED <<sham, sec, prs, project, session>>

Next == SealStep \/ AddShareStep \/ SetCiphertextStep \/ RecoverStep \/ ReturnStep

Spec == Init /\ [][Next]_vars

\* the share as Seal emitted it for one of the holders
IsEmitted(info) ==
    \E i \in DOMAIN project.shares :
        /\ info.Index = i
        /\ info.Total = project.n
        /\ info.Threshold = project.k
        /\ info.DataB64 = StdEncodeToString(project.shares[i].Data)

\* the indices of the held shares, in the order they were added
HeldIndices == [i \in DOMAIN session.shares |-> session.shares[i].Index]

\* C1: Recover on a session holding exactly K of the emitted shares, added
\* in any order, and the emitted ciphertext succeeds and returns exactly
\* the sealed files.
SealRecoverRoundTrip ==
    (/\ last.op = "Recover"
     /\ Len(session.shares) = project.k
     /\ \A i \in DOMAIN session.shares : IsEmitted(session.shares[i])
     /\ session.ciphertext = project.ciphertext) =>
        /\ last.err = "ok"
        /\ last.files = project.files

\* holders 3 and 1 of a 2-of-3 project, in that order, got both files back
SealRecoverRoundTripWitness ==
    /\ last.op = "Recover"
    /\ project.n = 3
    /\ project.k = 2
    /\ HeldIndices = <<3, 1>>
    /\ \A i \in DOMAIN session.shares : IsEmitted(session.shares[i])
    /\ session.ciphertext = project.ciphertext
    /\ last.err = "ok"
    /\ last.files = <<FileB, FileA>>

\* C4: Ready is true exactly when the collected shares reach the threshold
\* and a ciphertext is attached; Recover when Ready is false fails with
\* not-ready without combining or decrypting.
ReadyIffQuorumAndCiphertext ==
    project.state = "sealed" =>
        LET p == Progress(session)
            quorum == p[1] > 0 /\ p[1] >= p[2]
            attached == session.ciphertext # NoCiphertext
        IN  /\ Ready(session) <=> (quorum /\ attached)
            /\ last.op = "Recover" =>
                  /\ last.err = "not-ready" <=> ~(quorum /\ attached)
                  /\ last.err = "not-ready" => (~last.combined /\ ~last.decrypted)

\* a 3-of-3 session holding 2 shares and the ciphertext was refused
ReadyIffQuorumAndCiphertextWitness ==
    /\ last.op = "Recover"
    /\ last.err = "not-ready"
    /\ Progress(session) = <<2, 3, 3>>
    /\ session.ciphertext = project.ciphertext
    /\ ~last.combined
    /\ ~last.decrypted

\* C5: AddShare of a blob whose index is already held is rejected as
\* duplicate-index and leaves the progress tuple as it was, whatever the
\* bytes of the blob; Alice and Bob of a 2-of-3 cohort give progress
\* (2, 2, 3) and Recover succeeds.
DuplicateIndexRejected ==
    [][/\ (/\ last.op = "none"
           /\ last'.op = "AddShare"
           /\ \E i \in DOMAIN session.shares :
                 session.shares[i].Index = last'.share.Index) =>
              /\ last'.err = "duplicate-index"
              /\ session'.shares = session.shares
              /\ Progress(session') = Progress(session)
       /\ (/\ last'.op = "Recover"
           /\ project.n = 3
           /\ project.k = 2
           /\ Len(session.shares) = 2
           /\ \A i \in DOMAIN session.shares : IsEmitted(session.shares[i])
           /\ session.ciphertext = project.ciphertext) =>
              /\ Progress(session') = <<2, 2, 3>>
              /\ last'.err = "ok"]_vars

\* a copy of a held share with other payload bytes was refused as a
\* duplicate, the count staying at 1 of 2-of-3
DuplicateIndexRejectedWitness ==
    /\ last.op = "AddShare"
    /\ last.err = "duplicate-index"
    /\ Progress(session) = <<1, 2, 3>>
    /\ last.share.Index = session.shares[1].Index
    /\ last.share.DataB64 # session.shares[1].DataB64

FlippedPayloadRejected ==
    [][(/\ last.op = "none"
        /\ last'.op = "AddShare"
        /\ last'.kind = "corrupt") =>
           /\ last'.err = "not-well-formed"
           /\ session' = session]_vars

(***************************************************************************)
(* Specification SpecForm: the long form of a share, as emitted and as it  *)
(* may reach the parser (inside a larger document, with its header lines   *)
(* in another order or spaced differently), is handed to parseShare.       *)
(***************************************************************************)
\* holder labels: none, a name, with a space or ": " inside, with a space
\* in front or behind, a lone space, with a line break, with the end
\* sentinel inside
FormLabels ==
    {<<>>, <<"A", "l">>, <<"A", " ", "b">>, <<"A", ":", " ", "b">>,
     <<" ", "A", "l">>, <<"A", "l", " ">>, <<" ">>, <<"A", "\n", "b">>,
     <<"x">> \o shareEnd}

\* evaluation bytes that fill more than one payload line
LongBody == [j \in 1..48 |-> (j * 37) % 256]

FormShares ==
    {NewShare(c[1], c[2], c[3], h, <<c[1]>> \o b) :
        c \in {<<1, 2, 2>>, <<3, 3, 2>>}, h \in FormLabels,
        b \in PayloadBodies \cup {LongBody}}

\* the header lines of a document taken in the order perm
ReorderHeaders(doc, perm) ==
    [doc EXCEPT !.headers = [i \in DOMAIN perm |-> doc.headers[perm[i]]]]

\* the text of a document whose header lines are written
\* pre key sep value post eol
RenderSpaced(doc, pre, sep, post, eol) ==
    shareBegin \o <<"\n">>
    \o Flatten([i \in DOMAIN doc.headers |->
                  pre \o doc.headers[i][1] \o sep \o doc.headers[i][2] \o post \o eol])
    \o <<"\n">>
    \o Flatten([i \in DOMAIN doc.payload |-> doc.payload[i] \o <<"\n">>])
    \o shareEnd \o <<"\n">>

ContainedForms == {"readme", "endBefore", "endAfter", "twoBlocks"}
OrderForms == {"reversed", "rotated", "swapped"}
LineSpaceForms == {"indented", "trailing", "crlf"}
FieldSpaceForms == {"padKey", "padValue"}
FormNames ==
    {"emit"} \cup ContainedForms \cup OrderForms \cup LineSpaceForms
    \cup FieldSpaceForms

\* the text of form v of the long-form document d of a share
FormTextOf(d, share, v) ==
    IF v = "emit" THEN Render(d)
    ELSE IF v = "readme" THEN ReadmeHead \o Render(d) \o ReadmeTail
    ELSE IF v = "endBefore"
    THEN <<"s", "e", "e", " ">> \o shareEnd \o <<"\n">> \o Render(d)
    ELSE IF v = "endAfter" THEN Render(d) \o shareEnd \o <<"\n">>
    ELSE IF v = "twoBlocks"
    THEN Render(d) \o Render(SetHeader(d, KeyIndex, Itoa(share.Index + 1)))
    ELSE IF v = "reversed" THEN Render(ReorderHeaders(d, <<7, 6, 5, 4, 3, 2, 1>>))
    ELSE IF v = "rotated" THEN Render(ReorderHeaders(d, <<2, 3, 4, 5, 6, 7, 1>>))
    ELSE IF v = "swapped" THEN Render(ReorderHeaders(d, <<2, 1, 3, 4, 6, 5, 7>>))
    ELSE IF v = "indented"
    THEN RenderSpaced(d, <<" ", " ">>, <<":", " ">>, <<>>, <<"\n">>)
    ELSE IF v = "trailing"
    THEN RenderSpaced(d, <<>>, <<":", " ">>, <<" ", "\t">>, <<"\n">>)
    ELSE IF v = "crlf"
    THEN RenderSpaced(d, <<>>, <<":", " ">>, <<>>, <<"\r", "\n">>)
    ELSE IF v = "padKey"
    THEN RenderSpaced(d, <<>>, <<" ", ":", " ">>, <<>>, <<"\n">>)
    ELSE RenderSpaced(d, <<>>, <<":", " ", " ">>, <<>>, <<"\n">>)

FormText(share, v) == FormTextOf(LongDoc(share), share, v)

FormInit ==
    /\ sham = ShamOff
    /\ sec = SecOff
    /\ EngineOff
    /\ \E share \in FormShares, v \in FormNames :
         prs = [pc |-> "start", orig |-> share, tamper |-> v,
                content |-> FormText(share, v),
                result |-> [err |-> "none", share |-> ZeroShareInfo]]

SpecForm == FormInit /\ [][ParseNext]_vars

\* the parsed share info carries the attributes of share s
SameShare(info, s) ==
    /\ info.Version = s.Version
    /\ info.Index = s.Index
    /\ info.Total = s.Total
    /\ info.Threshold = s.Threshold
    /\ info.Holder = s.Holder
    /\ info.Created = ParseRFC3339(s.Created).t
    /\ DataOf(info) = s.Data
    /\ info.Checksum = s.Checksum

\* C11: parsing the long-form emission of a well-formed share, whatever its
\* holder label, yields a share equal to it in version, index, total,
\* threshold, holder, created, data and checksum.
LongFormRoundTrip ==
    (prs.pc = "parsed" /\ prs.tamper = "emit") =>
        /\ prs.result.err = "ok"
        /\ SameShare(prs.result.share, prs.orig)

\* C13: in a larger document the block from the first begin sentinel to
\* the first end sentinel after it is parsed, also when an end sentinel
\* occurs before the first begin sentinel.
FirstBlockParsed ==
    (/\ prs.pc = "parsed"
     /\ prs.tamper \in ContainedForms
     /\ parseShare(Encode(prs.orig)).err = "ok") =>
        prs.result = parseShare(Encode(prs.orig))

\* C14: parsing gives the same share for every order of the header lines
\* and with extra whitespace around header lines or between a header's key,
\* colon and value.
KeyDrivenParse ==
    (/\ prs.pc = "parsed"
     /\ prs.tamper \in OrderForms \cup LineSpaceForms \cup FieldSpaceForms
     /\ parseShare(Encode(prs.orig)).err = "ok") =>
        prs.result = parseShare(Encode(prs.orig))

(***************************************************************************)
(* The compact form of a share (CompactEncode, ParseCompact):              *)
(*   RM1:<index>:<total>:<threshold>:<b64url(data)>:<check4>               *)
(* and the recovery URL that carries it as the fragment #share=<compact>.  *)
(***************************************************************************)
CompactTag == <<"R", "M", "1">>

FragmentKey == <<"#", "s", "h", "a", "r", "e", "=">>

RecoveryURL ==
    <<"h", "t", "t", "p", "s", ":", "/", "/", "e", ".", "c", "o", "/", "r", ".",
      "h", "t", "m", "l">>

\* base64.RawURLEncoding: "-" and "_" for "+" and "/", no padding
UrlChar(c) == IF c = "+" THEN "-" ELSE IF c = "/" THEN "_" ELSE c

StdChar(c) == IF c = "-" THEN "+" ELSE IF c = "_" THEN "/" ELSE c

B64UrlSet == {UrlChar(c) : c \in B64StdSet}

RawURLEncodeToString(b) ==
    LET std == StdEncodeToString(b)
    IN  SelectSeq([i \in DOMAIN std |-> UrlChar(std[i])], LAMBDA c : c # "=")

\* RawURLEncoding.DecodeString reading the standard alphabet
RawURLDecodeStdAlphabet(t) ==
    IF \E i \in DOMAIN t : t[i] \notin B64StdSet THEN [ok |-> FALSE, bytes |-> <<>>]
    ELSE IF Len(t) % 4 = 1 THEN [ok |-> FALSE, bytes |-> <<>>]
    ELSE B64DecodeQuanta(t \o [i \in 1..((4 - (Len(t) % 4)) % 4) |-> "="])

RawURLDecodeString(t) ==
    IF \E i \in DOMAIN t : t[i] \notin B64UrlSet THEN [ok |-> FALSE, bytes |-> <<>>]
    ELSE IF Len(t) % 4 = 1 THEN [ok |-> FALSE, bytes |-> <<>>]
    ELSE B64DecodeQuanta([i \in DOMAIN t |-> StdChar(t[i])]
                         \o [i \in 1..((4 - (Len(t) % 4)) % 4) |-> "="])

\* the first 4 hex characters of SHA-256(data)
Check4(data) == SubSeq(EncodeToString(Sum256(data)), 1, 4)

\* Share.CompactEncode
CompactEncode(share) ==
    CompactTag \o <<":">> \o Itoa(share.Index) \o <<":">> \o Itoa(share.Total)
    \o <<":">> \o Itoa(share.Threshold) \o <<":">>
    \o RawURLEncodeToString(share.Data) \o <<":">> \o Check4(share.Data)

\* strings.Split(s, sep) for a one-character separator
SplitOn(s, sep) == SplitAt(s, 1, {i \in DOMAIN s : s[i] = sep})

NoShare ==
    [Version |-> 0, Index |-> 0, Total |-> 0, Threshold |-> 0, Holder |-> <<>>,
     Created |-> <<>>, Data |-> <<>>, Checksum |-> <<>>]

\* the well-formedness checks of ParseCompact on the parsed fields
CompactShareOf(index, total, threshold, data, check) ==
    IF \/ ~index.ok \/ ~total.ok \/ ~threshold.ok \/ ~data.ok
       \/ index.v < 1 \/ index.v > total.v
       \/ threshold.v < 2 \/ threshold.v > total.v \/ total.v > 255
       \/ Len(data.bytes) = 0
    THEN [err |-> "not-well-formed", share |-> NoShare]
    ELSE IF data.bytes[1] # index.v \/ check # Check4(data.bytes)
    THEN [err |-> "not-well-formed", share |-> NoShare]
    ELSE [err |-> "ok",
          share |-> [Version |-> 1, Index |-> index.v, Total |-> total.v,
                     Threshold |-> threshold.v, Holder |-> <<>>, Created |-> <<>>,
                     Data |-> data.bytes, Checksum |-> HashBytes(data.bytes)]]

CompactFieldsOf(parts) ==
    IF Len(parts) # 6 \/ parts[1] # CompactTag
    THEN [err |-> "not-well-formed", share |-> NoShare]
    ELSE CompactShareOf(Atoi(parts[2]), Atoi(parts[3]), Atoi(parts[4]),
                        RawURLDecodeString(parts[5]), parts[6])

\* ParseCompact
ParseCompact(t) == CompactFieldsOf(SplitOn(t, ":"))

\* ReadmeData.QRContent: the compact share, after the recovery URL if any
QRContent(url, share) ==
    IF url = <<>> THEN CompactEncode(share)
    ELSE url \o FragmentKey \o CompactEncode(share)

\* encodeURIComponent on the characters of a compact share: only ":" is
\* outside the unreserved set
EncodeURIComponent(t) == Join(SplitOn(t, ":"), <<"%", "3", "A">>)

\* the characters the escapes of a fragment stand for
EscapedChars == [e \in {<<"3", "A">>, <<"3", "a">>} |-> ":"]

\* the text after a "%": its first two characters are the escape
Unescape(piece) == <<EscapedChars[SubSeq(piece, 1, 2)]>> \o SubSeq(piece, 3, Len(piece))

\* decodeURIComponent on the pieces between "%" signs: every %XY is
\* replaced, a malformed escape is an error
DecodePieces(pieces) ==
    IF \E i \in 2..Len(pieces) :
          Len(pieces[i]) < 2 \/ SubSeq(pieces[i], 1, 2) \notin DOMAIN EscapedChars
    THEN [ok |-> FALSE, text |-> <<>>]
    ELSE [ok |-> TRUE,
          text |-> Flatten([i \in DOMAIN pieces |->
                              IF i = 1 THEN pieces[i] ELSE Unescape(pieces[i])])]

DecodeURIComponent(t) == DecodePieces(SplitOn(t, "%"))

\* the compact share of a decoded fragment
ParseDecoded(d) ==
    IF ~d.ok THEN [err |-> "not-well-formed", share |-> NoShare]
    ELSE ParseCompact(d.text)

\* what the recovery page does with a scanned value: a URL with a
\* #share= fragment is cut at the fragment and URL-decoded, then parsed
ScanValue(v) ==
    IF Index(v, FragmentKey) = -1 THEN ParseCompact(v)
    ELSE ParseDecoded(DecodeURIComponent(
             SubSeq(v, Index(v, FragmentKey) + Len(FragmentKey) + 1, Len(v))))

(***************************************************************************)
(* Specification SpecCompact: a share is emitted in compact form, bare or  *)
(* in a recovery URL, and what was scanned is parsed.                      *)
(***************************************************************************)
\* payloads of every padding length, with bytes that encode to "-" and "_"
CompactBodies == PayloadBodies \cup {<<251, 255, 190>>, LongBody}

CompactShares ==
    {NewShare(c[1], c[2], c[3], <<"A", "l">>, <<c[1]>> \o b) :
        c \in {<<1, 2, 2>>, <<3, 3, 2>>, <<2, 5, 3>>, <<12, 255, 7>>,
               <<255, 255, 255>>},
        b \in CompactBodies}

CompactForms == {"compact", "url", "urlEscaped"}

CompactInit ==
    /\ sham = ShamOff
    /\ sec = SecOff
    /\ EngineOff
    /\ \E share \in CompactShares, form \in CompactForms :
         prs = [pc |-> "start", orig |-> share, tamper |-> form,
                content |-> <<>>,
                result |-> [err |-> "none", share |-> NoShare]]

\* the QR content is produced
EmitCompactStep ==
    /\ prs.pc = "start"
    /\ prs' = [prs EXCEPT
                 !.pc = "emitted",
                 !.content =
                     IF prs.tamper = "compact" THEN QRContent(<<>>, prs.orig)
                     ELSE IF prs.tamper = "url" THEN QRContent(RecoveryURL, prs.orig)
                     ELSE RecoveryURL \o FragmentKey
                          \o EncodeURIComponent(CompactEncode(prs.orig))]
    /\ UNCHANGED <<sham, sec, engineVars>>

\* the recovery page scans it
ScanStep ==
    /\ prs.pc = "emitted"
    /\ prs' = [prs EXCEPT !.pc = "parsed", !.result = ScanValue(prs.content)]
    /\ UNCHANGED <<sham, sec, engineVars>>

CompactNext == EmitCompactStep \/ ScanStep

SpecCompact == CompactInit /\ [][CompactNext]_vars

\* C12: ParseCompact(CompactEncode(s)) succeeds with the index, total,
\* threshold and data of s and a checksum valid for that data, also when the
\* compact string travels as the fragment of a recovery URL.
CompactRoundTrip ==
    prs.pc = "parsed" =>
        /\ prs.result.err = "ok"
        /\ prs.result.share.Index = prs.orig.Index
        /\ prs.result.share.Total = prs.orig.Total
        /\ prs.result.share.Threshold = prs.orig.Threshold
        /\ prs.result.share.Data = prs.orig.Data
        /\ prs.result.share.Checksum = HashBytes(prs.orig.Data)

\* share 12 of 255 came back from an escaped URL fragment whose payload
\* uses "-" and "_"
CompactRoundTripWitness ==
    /\ prs.pc = "parsed"
    /\ prs.tamper = "urlEscaped"
    /\ Index(prs.content, <<"%", "3", "A">>) > 0
    /\ \E i \in DOMAIN prs.content : prs.content[i] = "_"
    /\ \E i \in DOMAIN prs.content : prs.content[i] = "-"
    /\ prs.orig.Index = 12
    /\ prs.result.err = "ok"
    /\ prs.result.share.Data = prs.orig.Data

(***************************************************************************)
(* core.ExtractTarGz (src/internal/core/archive.go).                       *)
(***************************************************************************)
\* the loop of ExtractTarGzReader that adds every entry's size to the total
\* before it looks at the entry's type
RECURSIVE ExtractReaderLoopCountAll(_, _, _, _)
ExtractReaderLoopCountAll(entries, i, files, totalSize) ==
    IF i > Len(entries)
    THEN IF Len(files) = 0 THEN [err |-> "empty archive", files |-> <<>>]
         ELSE [err |-> "ok", files |-> files]
    ELSE IF pathTraversal(entries[i].Name)
    THEN [err |-> "archive contains invalid path", files |-> <<>>]
    ELSE IF entries[i].Size > MaxFileSize
    THEN [err |-> "file exceeds maximum allowed size", files |-> <<>>]
    ELSE IF totalSize + entries[i].Size > MaxTotalSize
    THEN [err |-> "archive exceeds maximum total size", files |-> <<>>]
    ELSE IF entries[i].Typeflag # "reg"
    THEN ExtractReaderLoopCountAll(entries, i + 1, files,
                                   totalSize + entries[i].Size)
    ELSE ExtractReaderLoopCountAll(entries, i + 1,
             Append(files, [Name |-> entries[i].Name, Data |-> entries[i].Data]),
             totalSize + entries[i].Size)

\* the loop of ExtractTarGzReader without the check of the running total
RECURSIVE ExtractReaderLoopNoTotal(_, _, _, _)
ExtractReaderLoopNoTotal(entries, i, files, totalSize) ==
    IF i > Len(entries)
    THEN IF Len(files) = 0 THEN [err |-> "empty archive", files |-> <<>>]
         ELSE [err |-> "ok", files |-> files]
    ELSE IF pathTraversal(entries[i].Name)
    THEN [err |-> "archive contains invalid path", files |-> <<>>]
    ELSE IF entries[i].Typeflag # "reg"
    THEN ExtractReaderLoopNoTotal(entries, i + 1, files, totalSize)
    ELSE IF entries[i].Size > MaxFileSize
    THEN [err |-> "file exceeds maximum allowed size", files |-> <<>>]
    ELSE ExtractReaderLoopNoTotal(entries, i + 1,
             Append(files, [Name |-> entries[i].Name, Data |-> entries[i].Data]),
             totalSize + entries[i].Size)

\* the loop of ExtractTarGzReader over the entries from entry i on; err is
\* the fixed text of the message. A tar reader hands out exactly the
\* declared Size bytes of an entry, so the read limited to MaxFileSize
\* returns the entry's data whole once Size <= MaxFileSize was checked.
RECURSIVE ExtractReaderLoop(_, _, _, _)
ExtractReaderLoop(entries, i, files, totalSize) ==
    IF i > Len(entries)
    THEN IF Len(files) = 0 THEN [err |-> "empty archive", files |-> <<>>]
         ELSE [err |-> "ok", files |-> files]
    ELSE IF pathTraversal(entries[i].Name)
    THEN [err |-> "archive contains invalid path", files |-> <<>>]
    ELSE IF entries[i].Typeflag # "reg"
    THEN ExtractReaderLoop(entries, i + 1, files, totalSize)
    ELSE IF entries[i].Size > MaxFileSize
    THEN [err |-> "file exceeds maximum allowed size", files |-> <<>>]
    ELSE IF totalSize + entries[i].Size > MaxTotalSize
    THEN [err |-> "archive exceeds maximum total size", files |-> <<>>]
    ELSE ExtractReaderLoop(entries, i + 1,
             Append(files, [Name |-> entries[i].Name, Data |-> entries[i].Data]),
             totalSize + entries[i].Size)

\* ExtractTarGzReader
ExtractTarGzReader(r) ==
    IF ~r.gzip THEN [err |-> "creating gzip reader", files |-> <<>>]
    ELSE ExtractReaderLoop(r.entries, 1, <<>>, 0)

\* ExtractTarGz
ExtractTarGz(tarGzData) == ExtractTarGzReader(tarGzData)

(***************************************************************************)
(* Specification SpecArchive: an archive is handed to core.ExtractTarGz    *)
(* and to the WASM extractTarGz.                                           *)
(***************************************************************************)
\* entries of the short archives
MaxEntries == 2

\* file contents of n zero bytes, not written out
Zeros(n) == [zeros |-> n]

DataLen(d) == d.zeros

\* an archive entry: tar.Header with Name, Typeflag, Size, and the contents
Entry(name, typeflag, size) ==
    [Name |-> name, Typeflag |-> typeflag, Size |-> size, Data |-> Zeros(size)]

EntryNames ==
    {<<"a">>, <<"d", "/", "b">>, <<".", ".", "/", "e", "v", "i", "l">>,
     <<"a", "/", ".", ".", "/", "b">>, <<".", ".">>, <<"a", "/", ".", ".">>,
     <<"/", "a", "b", "s">>, <<"a", ".", ".", "b">>}

\* tar.TypeReg, tar.TypeDir, tar.TypeSymlink
Typeflags == {"reg", "dir", "symlink"}

EntrySizes == {0, MaxFileSize, MaxFileSize + 1}

ArchiveEntries ==
    {Entry(n, t, z) : n \in EntryNames, t \in Typeflags, z \in EntrySizes}

ShortArchives ==
    {[gzip |-> TRUE, entries |-> es] :
        es \in UNION {[1..n -> ArchiveEntries] : n \in 0..MaxEntries}}

\* as many files of MaxFileSize as fit under MaxTotalSize, and what is left
BulkCount == MaxTotalSize \div MaxFileSize

BulkRest == MaxTotalSize % MaxFileSize

BulkTailEntries ==
    {Entry(<<"a">>, "reg", BulkRest), Entry(<<"a">>, "reg", BulkRest + 1),
     Entry(<<"l">>, "symlink", MaxFileSize), Entry(<<"z">>, "reg", 0)}

\* archives that reach MaxTotalSize
BulkArchives ==
    {[gzip |-> TRUE,
      entries |-> [i \in 1..BulkCount |-> Entry(<<"f">>, "reg", MaxFileSize)] \o tail] :
        tail \in UNION {[1..n -> BulkTailEntries] : n \in 0..2}}

Archives == ShortArchives \cup BulkArchives \cup {NotGzip}

NoExtract == [err |-> "none", files |-> <<>>]

ArchiveInit ==
    /\ sham = ShamOff
    /\ sec = SecOff
    /\ EngineOff
    /\ \E archive \in Archives :
         prs = [pc |-> "packed", archive |-> archive, core |-> NoExtract,
                wasm |-> NoExtract]

\* core.ExtractTarGz is called on the archive
ExtractTarGzStep ==
    /\ prs.pc = "packed"
    /\ prs' = [prs EXCEPT !.pc = "extracted", !.core = ExtractTarGz(prs.archive)]
    /\ UNCHANGED <<sham, sec, engineVars>>

\* the WASM extractTarGz is called on the archive
ExtractWasmStep ==
    /\ prs.pc = "extracted"
    /\ prs' = [prs EXCEPT !.pc = "done", !.wasm = extractTarGz(prs.archive)]
    /\ UNCHANGED <<sham, sec, engineVars>>

ArchiveNext == ExtractTarGzStep \/ ExtractWasmStep

SpecArchive == ArchiveInit /\ [][ArchiveNext]_vars

\* name has ".." as one of its "/"-separated segments
DotDotSegment(name) == <<".", ".">> \in Range(SplitOn(name, "/"))

\* the regular-file entries of an archive, in archive order
RegularEntries(entries) == SelectSeq(entries, LAMBDA h : h.Typeflag = "reg")

RECURSIVE SumSizes(_)
SumSizes(entries) ==
    IF entries = <<>> THEN 0 ELSE Head(entries).Size + SumSizes(Tail(entries))

RECURSIVE SumDataLen(_)
SumDataLen(files) ==
    IF files = <<>> THEN 0 ELSE DataLen(Head(files).Data) + SumDataLen(Tail(files))

Failed(r) == r.err \notin {"ok", "none"} /\ r.files = <<>>

\* C15: an archive with an entry, regular or not, at any position, whose
\* name has ".." as a path segment makes ExtractTarGz (and the WASM
\* extractTarGz) fail and return no files.
PathTraversalRejected ==
    (/\ prs.pc = "done"
     /\ \E i \in DOMAIN prs.archive.entries :
            DotDotSegment(prs.archive.entries[i].Name))
    => Failed(prs.core) /\ Failed(prs.wasm)

\* a regular file "a" is followed by the directory "a/..": nothing comes back
PathTraversalRejectedWitness ==
    /\ prs.pc = "done"
    /\ Len(prs.archive.entries) = 2
    /\ prs.archive.entries[1] = Entry(<<"a">>, "reg", 0)
    /\ prs.archive.entries[2] = Entry(<<"a", "/", ".", ".">>, "dir", 0)
    /\ prs.core.err = "archive contains invalid path"
    /\ prs.core.files = <<>>
    /\ prs.wasm.files = <<>>

\* C16: every file name returned by a successful ExtractTarGz is relative:
\* no leading "/" and no ".." segment.
ReturnedNamesRelative ==
    (prs.pc = "done" /\ prs.core.err = "ok")
    => \A k \in DOMAIN prs.core.files :
           /\ Head(prs.core.files[k].Name) # "/"
           /\ ~DotDotSegment(prs.core.files[k].Name)

\* the regular-file entries among the first i entries
RegularUpTo(entries, i) == RegularEntries(SubSeq(entries, 1, i))

\* no name with a ".." segment, every regular file within MaxFileSize, and
\* the regular files together within MaxTotalSize
Admissible(entries) ==
    /\ \A i \in DOMAIN entries : ~DotDotSegment(entries[i].Name)
    /\ \A i \in DOMAIN entries :
           entries[i].Typeflag = "reg" => entries[i].Size <= MaxFileSize
    /\ SumSizes(RegularEntries(entries)) <= MaxTotalSize

\* C17: a regular-file entry declaring more than MaxFileSize, or a running
\* sum of the declared sizes of the regular-file entries above MaxTotalSize,
\* makes ExtractTarGz fail with no files; sizes exactly at a cap are
\* accepted; on success every file has at most MaxFileSize bytes and the
\* files together at most MaxTotalSize.
SizeCapsEnforced ==
    prs.pc = "done" =>
        /\ (\E i \in DOMAIN prs.archive.entries :
                /\ prs.archive.entries[i].Typeflag = "reg"
                /\ prs.archive.entries[i].Size > MaxFileSize)
           => Failed(prs.core)
        /\ (\E i \in DOMAIN prs.archive.entries :
                SumSizes(RegularUpTo(prs.archive.entries, i)) > MaxTotalSize)
           => Failed(prs.core)
        /\ (/\ Admissible(prs.archive.entries)
            /\ RegularEntries(prs.archive.entries) # <<>>)
           => prs.core.err = "ok"
        /\ prs.core.err = "ok"
           => /\ \A k \in DOMAIN prs.core.files :
                     DataLen(prs.core.files[k].Data) <= MaxFileSize
              /\ SumDataLen(prs.core.files) <= MaxTotalSize

\* files of exactly MaxFileSize that add up to exactly MaxTotalSize were
\* extracted
SizeCapsEnforcedWitness ==
    /\ prs.pc = "done"
    /\ prs.core.err = "ok"
    /\ \E k \in DOMAIN prs.core.files :
           DataLen(prs.core.files[k].Data) = MaxFileSize
    /\ SumDataLen(prs.core.files) = MaxTotalSize

ExtractorsEquivalent ==
    prs.pc = "done"
    => /\ (prs.core.err = "ok") <=> (prs.wasm.err = "ok")
       /\ prs.core.err = "ok" => prs.core.files = prs.wasm.files
       /\ prs.core.err # "ok" => prs.core.files = <<>> /\ prs.wasm.files = <<>>

ExtractorsEquivalentWitness ==
    /\ prs.pc = "done"
    /\ prs.core.err = "ok"
    /\ prs.wasm.err = "ok"
    /\ Len(prs.wasm.files) = 2
    /\ prs.wasm.files[1].Name # prs.wasm.files[2].Name
    /\ prs.core.files = prs.wasm.files

(***************************************************************************)
(* The age file behind crypto.Encrypt and crypto.Decrypt.  Encrypt and     *)
(* decryptManifest above treat a ciphertext as one sealed token; here it   *)
(* is the age scrypt file: a header whose stanza wraps a fresh file key    *)
(* under the scrypt key of the passphrase, a header MAC, and the payload   *)
(* as a stream of sealed chunks, the last one flagged.  Keys and seals     *)
(* are symbolic: a seal opens only under the key that made it.             *)
(***************************************************************************)
\* stands for the 64 KiB chunk of the age payload stream
ChunkSize == 2

ScryptKey(passphrase, salt) == [scrypt |-> passphrase, salt |-> salt]

WrapKey(kek, fileKey) == [under |-> kek, fileKey |-> fileKey]

HeaderMAC(fileKey, stanza) == [hmac |-> fileKey, over |-> stanza]

StreamKey(fileKey, nonce) == [hkdf |-> fileKey, nonce |-> nonce]

SealChunk(key, counter, final, data) ==
    [key |-> key, counter |-> counter, last |-> final, data |-> data]

\* the plaintext as the stream writer cuts it: full chunks, then what is
\* left (a full chunk when the length is a multiple, empty only for the
\* empty plaintext)
RECURSIVE ChunksOf(_)
ChunksOf(p) ==
    IF Len(p) <= ChunkSize THEN <<p>>
    ELSE <<SubSeq(p, 1, ChunkSize)>> \o ChunksOf(SubSeq(p, ChunkSize + 1, Len(p)))

\* age.Encrypt followed by io.Copy: the header is written, every chunk but
\* the one still in the writer's buffer is sealed and written
AgeWrite(chunks, passphrase, fileKey, salt, nonce) ==
    [age |-> TRUE,
     stanza |-> [salt |-> salt, body |-> WrapKey(ScryptKey(passphrase, salt), fileKey)],
     mac |-> HeaderMAC(fileKey, [salt |-> salt,
                                 body |-> WrapKey(ScryptKey(passphrase, salt), fileKey)]),
     nonce |-> nonce,
     chunks |-> [i \in 1..(Len(chunks) - 1) |->
                   SealChunk(StreamKey(fileKey, nonce), i - 1, FALSE, chunks[i])],
     unwritten |-> chunks[Len(chunks)]]

\* writer.Close: the buffer is sealed as the last chunk
AgeClose(w, fileKey) ==
    [age |-> TRUE, stanza |-> w.stanza, mac |-> w.mac, nonce |-> w.nonce,
     chunks |-> Append(w.chunks,
                       SealChunk(StreamKey(fileKey, w.nonce), Len(w.chunks), TRUE,
                                 w.unwritten))]

\* the file when the writer is never closed: the buffer is lost
AgeAbandon(w, fileKey) ==
    [age |-> TRUE, stanza |-> w.stanza, mac |-> w.mac, nonce |-> w.nonce,
     chunks |-> w.chunks]

\* crypto.Encrypt that returns without writer.Close
EncryptStreamNoClose(plaintext, passphrase, fileKey, salt, nonce) ==
    IF passphrase = <<>>
    THEN [err |-> "passphrase cannot be empty", dst |-> NotAge]
    ELSE [err |-> "ok",
          dst |-> AgeAbandon(AgeWrite(ChunksOf(plaintext), passphrase, fileKey,
                                      salt, nonce), fileKey)]

\* crypto.Encrypt; dst is what was written to the destination
EncryptStream(plaintext, passphrase, fileKey, salt, nonce) ==
    IF passphrase = <<>>
    THEN [err |-> "passphrase cannot be empty", dst |-> NotAge]
    ELSE [err |-> "ok",
          dst |-> AgeClose(AgeWrite(ChunksOf(plaintext), passphrase, fileKey,
                                    salt, nonce), fileKey)]

\* age.Decrypt: the identity unwraps the file key of the stanza and the
\* header MAC is verified; nothing of the payload is read yet
AgeDecrypt(src, passphrase) ==
    IF ~src.age THEN [ok |-> FALSE, key |-> <<>>]
    ELSE IF src.stanza.body.under # ScryptKey(passphrase, src.stanza.salt)
    THEN [ok |-> FALSE, key |-> <<>>]
    ELSE IF src.mac # HeaderMAC(src.stanza.body.fileKey, src.stanza)
    THEN [ok |-> FALSE, key |-> <<>>]
    ELSE [ok |-> TRUE, key |-> StreamKey(src.stanza.body.fileKey, src.nonce)]

\* chunk i of the payload opens: sealed under the stream key with its own
\* counter, flagged last exactly at the end, full unless last, empty only
\* as the single chunk of an empty plaintext
ChunkOpens(chunks, i, key) ==
    /\ chunks[i].key = key
    /\ chunks[i].counter = i - 1
    /\ chunks[i].last = (i = Len(chunks))
    /\ Len(chunks[i].data) <= ChunkSize
    /\ (i < Len(chunks) => Len(chunks[i].data) = ChunkSize)
    /\ (Len(chunks[i].data) = 0 => i = 1)

\* reading the payload to its end: the chunks before the first one that
\* does not open are handed out; a payload without chunks ends unexpectedly
StreamRead(chunks, key) ==
    LET bad == {i \in DOMAIN chunks : ~ChunkOpens(chunks, i, key)}
        upto == IF bad = {} THEN Len(chunks)
                ELSE (CHOOSE i \in bad : \A j \in bad : i <= j) - 1
    IN  [ok |-> bad = {} /\ Len(chunks) > 0,
         out |-> Flatten([i \in 1..upto |-> chunks[i].data])]

\* io.Copy(dst, reader) of Decrypt: what was read before an error has
\* already been written
CopyOut(r) ==
    IF r.ok THEN [err |-> "ok", dst |-> r.out]
    ELSE [err |-> "reading decrypted data", dst |-> r.out]

DecryptWith(src, h) ==
    IF ~h.ok THEN [err |-> "decrypting", dst |-> <<>>]
    ELSE CopyOut(StreamRead(src.chunks, h.key))

\* crypto.Decrypt that goes on to the payload with the file key of the
\* stanza whatever the passphrase
DecryptAnyPassphrase(src, passphrase) ==
    IF passphrase = <<>>
    THEN [err |-> "passphrase cannot be empty", dst |-> <<>>]
    ELSE IF ~src.age THEN [err |-> "decrypting", dst |-> <<>>]
    ELSE CopyOut(StreamRead(src.chunks,
                            StreamKey(src.stanza.body.fileKey, src.nonce)))

\* crypto.Decrypt; dst is what was written to the destination
Decrypt(src, passphrase) ==
    IF passphrase = <<>>
    THEN [err |-> "passphrase cannot be empty", dst |-> <<>>]
    ELSE DecryptWith(src, AgeDecrypt(src, passphrase))

\* io.ReadAll of decryptManifest: nil on an error
ReadAllOut(r) ==
    IF r.ok THEN [err |-> "ok", plaintext |-> r.out]
    ELSE [err |-> "reading decrypted data", plaintext |-> <<>>]

decryptManifestWith(encryptedData, h) ==
    IF ~h.ok THEN [err |-> "decrypting", plaintext |-> <<>>]
    ELSE ReadAllOut(StreamRead(encryptedData.chunks, h.key))

\* decryptManifest (WASM) on the age file; age.NewScryptIdentity refuses
\* the empty passphrase
decryptManifestStream(encryptedData, passphrase) ==
    IF passphrase = <<>>
    THEN [err |-> "creating identity", plaintext |-> <<>>]
    ELSE decryptManifestWith(encryptedData, AgeDecrypt(encryptedData, passphrase))

(***************************************************************************)
(* Specification SpecCrypto: a plaintext is encrypted under a passphrase,  *)
(* the file, whole or cut short, is decrypted under a passphrase by        *)
(* crypto.Decrypt and by the WASM decryptManifest.                         *)
(***************************************************************************)
MaxPlainLen == 5

PlainBytes == {0, 255}

Plaintexts == UNION {[1..n -> PlainBytes] : n \in 0..MaxPlainLen}

CryptoPassphrases == {<<>>, <<1>>, <<2>>, <<1, 2>>}

\* the random draws of age.Encrypt: file key, scrypt salt, stream nonce
FileKeys == {"k1", "k2"}

Salts == {"s1", "s2"}

Nonces == {"n1"}

NoDecrypt == [err |-> "none", dst |-> <<>>]

NoManifest == [err |-> "none", plaintext |-> <<>>]

\* the file without its last chunk
CutShort(file) ==
    IF ~file.age \/ Len(file.chunks) = 0 THEN file
    ELSE [file EXCEPT !.chunks = SubSeq(file.chunks, 1, Len(file.chunks) - 1)]

CryptoInit ==
    /\ sham = ShamOff
    /\ sec = SecOff
    /\ EngineOff
    /\ \E p \in Plaintexts, q \in CryptoPassphrases :
         prs = [pc |-> "plain", plaintext |-> p, passphrase |-> q,
                enc |-> [err |-> "none", dst |-> NotAge], src |-> NotAge,
                cut |-> FALSE, tryPass |-> <<>>,
                dec |-> NoDecrypt, wasm |-> NoManifest]

\* crypto.Encrypt is called
EncryptStep ==
    /\ prs.pc = "plain"
    /\ \E fileKey \in FileKeys, salt \in Salts, nonce \in Nonces :
         prs' = [prs EXCEPT
                   !.pc = "encrypted",
                   !.enc = EncryptStream(prs.plaintext, prs.passphrase,
                                         fileKey, salt, nonce)]
    /\ UNCHANGED <<sham, sec, engineVars>>

\* crypto.Decrypt is called on the file, whole or cut short
DecryptStep ==
    /\ prs.pc = "encrypted"
    /\ \E cut \in BOOLEAN, q \in CryptoPassphrases :
         prs' = [prs EXCEPT
                   !.pc = "decrypted", !.cut = cut, !.tryPass = q,
                   !.src = IF cut THEN CutShort(prs.enc.dst) ELSE prs.enc.dst,
                   !.dec = Decrypt(IF cut THEN CutShort(prs.enc.dst)
                                   ELSE prs.enc.dst, q)]
    /\ UNCHANGED <<sham, sec, engineVars>>

\* the WASM decryptManifest is called on the same bytes and passphrase
DecryptManifestStep ==
    /\ prs.pc = "decrypted"
    /\ prs' = [prs EXCEPT !.pc = "done",
                          !.wasm = decryptManifestStream(prs.src, prs.tryPass)]
    /\ UNCHANGED <<sham, sec, engineVars>>

CryptoNext == EncryptStep \/ DecryptStep \/ DecryptManifestStep

SpecCrypto == CryptoInit /\ [][CryptoNext]_vars

\* C19: for every plaintext, the empty one included, and every non-empty
\* passphrase, Decrypt of what Encrypt wrote, under the same passphrase,
\* succeeds and writes exactly the plaintext.
EncryptDecryptRoundTrip ==
    (/\ prs.pc \in {"decrypted", "done"}
     /\ prs.passphrase # <<>>
     /\ ~prs.cut
     /\ prs.tryPass = prs.passphrase)
    => /\ prs.enc.err = "ok"
       /\ prs.dec.err = "ok"
       /\ prs.dec.dst = prs.plaintext

\* a plaintext of two full chunks and a rest came back
EncryptDecryptRoundTripWitness ==
    /\ prs.pc = "decrypted"
    /\ Len(prs.plaintext) = 2 * ChunkSize + 1
    /\ prs.passphrase = <<1, 2>>
    /\ prs.tryPass = prs.passphrase
    /\ ~prs.cut
    /\ Len(prs.enc.dst.chunks) = 3
    /\ prs.dec.err = "ok"
    /\ prs.dec.dst = prs.plaintext

\* C20: decrypting under a non-empty passphrase other than the one used to
\* encrypt returns an error and writes no plaintext byte, for Decrypt and
\* for the WASM decryptManifest.
WrongPassphraseRejected ==
    (/\ prs.pc = "done"
     /\ prs.passphrase # <<>>
     /\ prs.tryPass # <<>>
     /\ prs.tryPass # prs.passphrase)
    => /\ prs.dec.err \notin {"ok", "none"}
       /\ prs.dec.dst = <<>>
       /\ prs.wasm.err \notin {"ok", "none"}
       /\ prs.wasm.plaintext = <<>>

\* a whole file with a non-empty plaintext was tried under another passphrase
WrongPassphraseRejectedWitness ==
    /\ prs.pc = "done"
    /\ Len(prs.plaintext) > ChunkSize
    /\ prs.passphrase = <<1>>
    /\ prs.tryPass = <<1, 2>>
    /\ ~prs.cut
    /\ prs.dec = [err |-> "decrypting", dst |-> <<>>]
    /\ prs.wasm = [err |-> "decrypting", plaintext |-> <<>>]

(***************************************************************************)
(* Specification SpecParams: Split is called with parameters in and out of *)
(* range, and the shares of a successful split are combined in any         *)
(* selection, repeats included.                                            *)
(***************************************************************************)
ParamTotals == {0, 1, 2, 3, 255, 256, 300}

ParamThresholds == {0, 1, 2, 3, 4, 16, 256}

ParamSecrets == {<<>>, <<7>>, <<255, 0>>}

\* the random coefficients of one split: every coefficient the same byte
ParamCoeffs(len, k) == {[i \in 1..len |-> [j \in 1..(k - 1) |-> c]] : c \in {1, 255}}

\* shares handed to Combine
MaxPicked == 3

ParamsInit ==
    /\ \E secret \in ParamSecrets, n \in ParamTotals, k \in ParamThresholds :
         sham = [pc |-> "start", secret |-> secret, n |-> n, k |-> k,
                 valid |-> "none", err |-> "none", shares |-> <<>>,
                 picked |-> <<>>, raw |-> [err |-> "none", secret |-> <<>>],
                 result |-> [err |-> "none", passphrase |-> <<>>]]
    /\ sec = SecOff
    /\ prs = PrsOff
    /\ EngineOff

\* ValidateShamirParams(n, k)
ValidateStep ==
    /\ sham.pc = "start"
    /\ sham' = [sham EXCEPT !.pc = "validated",
                            !.valid = ValidateShamirParams(sham.n, sham.k)]
    /\ UNCHANGED <<sec, prs, engineVars>>

SplitReturns(r) ==
    sham' = [sham EXCEPT !.pc = "split", !.err = r.err, !.shares = r.shares]

\* Split(secret, n, k)
SplitParamsStep ==
    /\ sham.pc = "validated"
    /\ \E coeffs \in ParamCoeffs(Len(sham.secret), sham.k) :
         SplitReturns(Split(sham.secret, sham.n, sham.k, coeffs))
    /\ UNCHANGED <<sec, prs, engineVars>>

\* Combine and combineShares on up to MaxPicked of the first shares, in any
\* order, the same share possibly more than once
CombineAnyStep ==
    /\ sham.pc = "split"
    /\ sham.err = "ok"
    /\ \E picked \in SeqsOf(1..Min(sham.n, MaxN), 0, MaxPicked) :
         sham' = [sham EXCEPT
                    !.pc = "combined",
                    !.picked = picked,
                    !.raw = Combine([i \in DOMAIN picked |-> sham.shares[picked[i]]]),
                    !.result = combineShares(
                        [i \in DOMAIN picked |-> ShareDataOf(sham.shares[picked[i]])])]
    /\ UNCHANGED <<sec, prs, engineVars>>

ParamsNext == ValidateStep \/ SplitParamsStep \/ CombineAnyStep

SpecParams == ParamsInit /\ [][ParamsNext]_vars

InRange(n, k) == 2 <= k /\ k <= n /\ n <= 255

\* C21: ValidateShamirParams(n, k) and Split(secret, n, k) fail unless
\* 2 <= k <= n <= 255, Split also fails for the empty secret, and every
\* pair in range is accepted.
ShamirParamsValidated ==
    /\ sham.pc \in {"validated", "split", "combined"}
       => (sham.valid = "ok" <=> InRange(sham.n, sham.k))
    /\ sham.pc \in {"split", "combined"}
       => /\ (sham.err = "ok" <=> InRange(sham.n, sham.k) /\ sham.secret # <<>>)
          /\ (sham.err # "ok" => sham.err = "invalid-params" /\ sham.shares = <<>>)
          /\ (sham.err = "ok" => Len(sham.shares) = sham.n)

\* 255 shares with threshold 16 were dealt
ShamirParamsValidatedWitness ==
    /\ sham.pc = "split"
    /\ sham.n = 255
    /\ sham.k = 16
    /\ sham.valid = "ok"
    /\ sham.err = "ok"
    /\ Len(sham.shares) = 255

\* C22: Combine returns an error and no secret for fewer than 2 shares and
\* for two shares with the same leading index byte.
CombineRejectsFewOrRepeated ==
    (/\ sham.pc = "combined"
     /\ \/ Len(sham.picked) < 2
        \/ \E i, j \in DOMAIN sham.picked : i # j /\ sham.picked[i] = sham.picked[j])
    => /\ sham.raw.err # "ok"
       /\ sham.raw.secret = <<>>
       /\ sham.result.err # "ok"
       /\ sham.result.passphrase = <<>>

\* shares 1, 2 and 2 again of a 2-of-3 split were refused
CombineRejectsFewOrRepeatedWitness ==
    /\ sham.pc = "combined"
    /\ sham.n = 3
    /\ sham.k = 2
    /\ sham.picked = <<1, 2, 2>>
    /\ sham.raw.err = "duplicate-index"
    /\ sham.result.err = "combining-shares"
    /\ sham.result.passphrase = <<>>

(***************************************************************************)
(* Personalization extractor (src/internal/html/extract.go).               *)
(***************************************************************************)
\* the literal part of personalizationRe
PersonalizationSymbol ==
    <<"w", "i", "n", "d", "o", "w", ".", "P", "E", "R", "S", "O", "N", "A",
      "L", "I", "Z", "A", "T", "I", "O", "N">>

\* the class \s of package regexp
RegexpSpace == {" ", "\t", "\n", "\r", "\f"}

\* the position after the white space that starts at i
SkipSpace(s, i) ==
    CHOOSE j \in i..(Len(s) + 1) :
        /\ j = Len(s) + 1 \/ s[j] \notin RegexpSpace
        /\ \A h \in i..(j - 1) : s[h] \in RegexpSpace

\* the positions where (\{[^\n]*\})\s*; can end its group when the group
\* starts at b
GroupEnds(s, b) ==
    {e \in (b + 1)..Len(s) :
        /\ s[e] = "}"
        /\ \A h \in (b + 1)..(e - 1) : s[h] # "\n"
        /\ SkipSpace(s, e + 1) <= Len(s)
        /\ s[SkipSpace(s, e + 1)] = ";"}

\* the position of the "{" of a match of personalizationRe that starts at
\* i, 0 if there is none
GroupStart(s, i) ==
    IF ~MatchAt(s, PersonalizationSymbol, i) THEN 0
    ELSE IF SkipSpace(s, i + Len(PersonalizationSymbol)) > Len(s) THEN 0
    ELSE IF s[SkipSpace(s, i + Len(PersonalizationSymbol))] # "=" THEN 0
    ELSE IF SkipSpace(s, SkipSpace(s, i + Len(PersonalizationSymbol)) + 1) > Len(s)
    THEN 0
    ELSE IF s[SkipSpace(s, SkipSpace(s, i + Len(PersonalizationSymbol)) + 1)] # "{"
    THEN 0
    ELSE IF GroupEnds(s, SkipSpace(s, SkipSpace(s, i + Len(PersonalizationSymbol)) + 1)) = {}
    THEN 0
    ELSE SkipSpace(s, SkipSpace(s, i + Len(PersonalizationSymbol)) + 1)

\* the group of the match that starts at the "{" at b: greedy, so up to
\* the last possible end
GroupAt(s, b) ==
    SubSeq(s, b, CHOOSE e \in GroupEnds(s, b) : \A f \in GroupEnds(s, b) : f <= e)

\* personalizationRe.FindSubmatch: the leftmost match
FindSubmatchFrom(s, starts) ==
    IF starts = {} THEN [found |-> FALSE, group |-> <<>>]
    ELSE [found |-> TRUE,
          group |-> GroupAt(s, GroupStart(s, CHOOSE i \in starts :
                                                 \A j \in starts : i <= j))]

FindSubmatch(s) ==
    FindSubmatchFrom(s, {i \in DOMAIN s :
                            s[i] = PersonalizationSymbol[1] /\ GroupStart(s, i) > 0})

(***************************************************************************)
(* json.Unmarshal into personalizationManifest, for one-line objects whose *)
(* member values are strings without escapes, integers, true, false or     *)
(* null; any other text is taken as invalid JSON (the pages below use no   *)
(* nested values and no escapes).                                          *)
(***************************************************************************)
Quote == "\""

QuotesBefore(t, i) == Cardinality({q \in 1..(i - 1) : t[q] = Quote})

\* the text outside the strings, every string shrunk to one quote
Skeleton(t) ==
    SelectSeq([i \in DOMAIN t |->
                 IF t[i] = Quote
                 THEN IF QuotesBefore(t, i) % 2 = 0 THEN Quote ELSE ""
                 ELSE IF QuotesBefore(t, i) % 2 = 1 THEN "" ELSE t[i]],
              LAMBDA c : c # "")

\* the k-th string of the text
StringAt(t, k) ==
    SubSeq(t,
           (CHOOSE i \in DOMAIN t : t[i] = Quote /\ QuotesBefore(t, i) = 2 * k - 2) + 1,
           (CHOOSE i \in DOMAIN t : t[i] = Quote /\ QuotesBefore(t, i) = 2 * k - 1) - 1)

JSONLiterals ==
    {<<"n", "u", "l", "l">>, <<"t", "r", "u", "e">>, <<"f", "a", "l", "s", "e">>}

\* an integer of the JSON grammar
JSONInteger(v) ==
    /\ Len(v) > 0
    /\ \A i \in DOMAIN v : v[i] \in DigitSet \/ (i = 1 /\ v[i] = "-")
    /\ v # <<"-">>
    /\ ~(Len(v) > 1 /\ v[1] = "0")
    /\ ~(Len(v) > 2 /\ v[1] = "-" /\ v[2] = "0")

ValueKind(v) ==
    IF v = <<Quote>> THEN "string"
    ELSE IF v = <<"n", "u", "l", "l">> THEN "null"
    ELSE IF v \in JSONLiterals THEN "bool"
    ELSE IF JSONInteger(v) THEN "number"
    ELSE "invalid"

\* the members of the object between the braces of the skeleton: key and
\* value skeletons, white space trimmed
MemberParts(inner) ==
    IF TrimSpace(inner) = <<>> THEN <<>>
    ELSE [m \in DOMAIN SplitOn(inner, ",") |->
            [i \in DOMAIN SplitOn(SplitOn(inner, ",")[m], ":") |->
                TrimSpace(SplitOn(SplitOn(inner, ",")[m], ":")[i])]]

ValidMembers(parts) ==
    \A m \in DOMAIN parts :
        /\ Len(parts[m]) = 2
        /\ parts[m][1] = <<Quote>>
        /\ ValueKind(parts[m][2]) # "invalid"

\* the number of the string that is the key of member m
KeyNumber(parts, m) ==
    m + Cardinality({h \in 1..(m - 1) : ValueKind(parts[h][2]) = "string"})

\* the members with their key, the kind of their value and, for a string,
\* its text
MembersOf(t, parts) ==
    [m \in DOMAIN parts |->
        [key |-> StringAt(t, KeyNumber(parts, m)),
         kind |-> ValueKind(parts[m][2]),
         text |-> IF ValueKind(parts[m][2]) = "string"
                  THEN StringAt(t, KeyNumber(parts, m) + 1) ELSE <<>>]]

UpperLetters ==
    <<"A", "B", "C", "D", "E", "F", "G", "H", "I", "J", "K", "L", "M", "N",
      "O", "P", "Q", "R", "S", "T", "U", "V", "W", "X", "Y", "Z">>

LowerLetters ==
    <<"a", "b", "c", "d", "e", "f", "g", "h", "i", "j", "k", "l", "m", "n",
      "o", "p", "q", "r", "s", "t", "u", "v", "w", "x", "y", "z">>

ToLower(c) ==
    IF c \in Range(UpperLetters)
    THEN LowerLetters[CHOOSE i \in DOMAIN UpperLetters : UpperLetters[i] = c]
    ELSE c

\* strings.EqualFold on ASCII text
EqualFold(a, b) ==
    /\ Len(a) = Len(b)
    /\ \A i \in DOMAIN a : ToLower(a[i]) = ToLower(b[i])

\* the json tag of personalizationManifest.ManifestB64
ManifestB64Tag ==
    <<"m", "a", "n", "i", "f", "e", "s", "t", "B", "6", "4">>

\* the members that json.Unmarshal stores in ManifestB64: the tag is
\* matched exactly or, failing that, without regard to case
FieldMembers(members) ==
    SelectSeq(members, LAMBDA mb : EqualFold(mb.key, ManifestB64Tag))

\* the decoded struct: a number or boolean for the field is a type error,
\* null leaves the field as it is, of several strings the last one stays
UnmarshalFields(fm) ==
    IF \E m \in DOMAIN fm : fm[m].kind \in {"number", "bool"}
    THEN [ok |-> FALSE, ManifestB64 |-> <<>>]
    ELSE IF \A m \in DOMAIN fm : fm[m].kind # "string"
    THEN [ok |-> TRUE, ManifestB64 |-> <<>>]
    ELSE [ok |-> TRUE,
          ManifestB64 |-> fm[CHOOSE m \in DOMAIN fm :
                                /\ fm[m].kind = "string"
                                /\ \A h \in DOMAIN fm :
                                       fm[h].kind = "string" => h <= m].text]

UnmarshalMembers(t, parts) ==
    IF ~ValidMembers(parts) THEN [ok |-> FALSE, ManifestB64 |-> <<>>]
    ELSE UnmarshalFields(FieldMembers(MembersOf(t, parts)))

UnmarshalSkeleton(t, sk) ==
    IF Len(sk) < 2 \/ sk[1] # "{" \/ sk[Len(sk)] # "}"
    THEN [ok |-> FALSE, ManifestB64 |-> <<>>]
    ELSE UnmarshalMembers(t, MemberParts(SubSeq(sk, 2, Len(sk) - 1)))

\* json.Unmarshal(data, &p)
Unmarshal(t) ==
    IF Cardinality({q \in DOMAIN t : t[q] = Quote}) % 2 = 1
    THEN [ok |-> FALSE, ManifestB64 |-> <<>>]
    ELSE UnmarshalSkeleton(t, TrimSpace(Skeleton(t)))

\* the steps of ExtractManifestFromHTML after the match
DecodeManifest(d) ==
    IF ~d.ok THEN [err |-> "decoding manifest base64", data |-> <<>>]
    ELSE [err |-> "ok", data |-> d.bytes]

ManifestOf(p) ==
    IF ~p.ok THEN [err |-> "parsing PERSONALIZATION JSON", data |-> <<>>]
    ELSE IF p.ManifestB64 = <<>>
    THEN [err |-> "no embedded manifest in HTML (manifestB64 is empty)",
          data |-> <<>>]
    ELSE DecodeManifest(StdDecodeString(p.ManifestB64))

ManifestOfMatch(matches) ==
    IF ~matches.found
    THEN [err |-> "no PERSONALIZATION data found in HTML", data |-> <<>>]
    ELSE ManifestOf(Unmarshal(matches.group))

\* ExtractManifestFromHTML
ExtractManifestFromHTML(htmlContent) == ManifestOfMatch(FindSubmatch(htmlContent))

(***************************************************************************)
(* Specification SpecExtract: a recovery page carrying a personalization   *)
(* object, in several layouts, is handed to ExtractManifestFromHTML.       *)
(***************************************************************************)
ExtractCiphertexts == {<<>>, <<7>>, <<255, 0>>, <<251, 255, 190>>}

\* the personalization objects, by name, around the base64 text b64
PersonalizationJSON(b64) ==
    [only |->
        <<"{", "\"", "m", "a", "n", "i", "f", "e", "s", "t", "B", "6",
          "4", "\"", ":", "\"">> \o b64 \o
        <<"\"", "}">>,
     before |->
        <<"{", "\"", "h", "o", "l", "d", "e", "r", "\"", ":", "\"",
          "A", "l", "\"", ",", "\"", "m", "a", "n", "i", "f", "e", "s",
          "t", "B", "6", "4", "\"", ":", "\"">> \o b64 \o
        <<"\"", "}">>,
     after |->
        <<"{", "\"", "m", "a", "n", "i", "f", "e", "s", "t", "B", "6",
          "4", "\"", ":", "\"">> \o b64 \o
        <<"\"", ",", "\"", "n", "o", "t", "e", "\"", ":", "\"", "a",
          "}", ";", "b", "\"", "}">>,
     number |->
        <<"{", "\"", "v", "\"", ":", "2", ",", "\"", "m", "a", "n",
          "i", "f", "e", "s", "t", "B", "6", "4", "\"", ":", "\"">> \o b64 \o
        <<"\"", ",", "\"", "x", "\"", ":", "n", "u", "l", "l", "}">>,
     spaced |->
        <<"{", " ", "\"", "m", "a", "n", "i", "f", "e", "s", "t", "B",
          "6", "4", "\"", " ", ":", " ", "\"">> \o b64 \o
        <<"\"", " ", "}">>,
     caseKey |->
        <<"{", "\"", "m", "a", "n", "i", "f", "e", "s", "t", "B", "6",
          "4", "\"", ":", "\"">> \o b64 \o
        <<"\"", ",", "\"", "M", "A", "N", "I", "F", "E", "S", "T", "B",
          "6", "4", "\"", ":", "\"", "Q", "Q", "=", "=", "\"", "}">>,
     foldedOnly |->
        <<"{", "\"", "M", "A", "N", "I", "F", "E", "S", "T", "B", "6",
          "4", "\"", ":", "\"">> \o b64 \o
        <<"\"", "}">>,
     trailingComma |->
        <<"{", "\"", "m", "a", "n", "i", "f", "e", "s", "t", "B", "6",
          "4", "\"", ":", "\"">> \o b64 \o
        <<"\"", ",", "}">>,
     unquotedKey |->
        <<"{", "m", "a", "n", "i", "f", "e", "s", "t", "B", "6", "4",
          ":", "\"">> \o b64 \o
        <<"\"", "}">>,
     badChar |->
        <<"{", "\"", "m", "a", "n", "i", "f", "e", "s", "t", "B", "6",
          "4", "\"", ":", "\"">> \o b64 \o
        <<"!", "\"", "}">>,
     badPadding |->
        <<"{", "\"", "m", "a", "n", "i", "f", "e", "s", "t", "B", "6",
          "4", "\"", ":", "\"", "Q", "Q", "=">> \o b64 \o
        <<"\"", "}">>,
     numberValue |->
        <<"{", "\"", "m", "a", "n", "i", "f", "e", "s", "t", "B", "6",
          "4", "\"", ":", "7", ",", "\"", "w", "a", "s", "\"", ":", "\"">> \o b64 \o
        <<"\"", "}">>,
     nullValue |->
        <<"{", "\"", "m", "a", "n", "i", "f", "e", "s", "t", "B", "6",
          "4", "\"", ":", "n", "u", "l", "l", ",", "\"", "w", "a", "s",
          "\"", ":", "\"">> \o b64 \o
        <<"\"", "}">>,
     absent |->
        <<"{", "\"", "h", "o", "l", "d", "e", "r", "\"", ":", "\"",
          "A", "l", "\"", ",", "\"", "w", "a", "s", "\"", ":", "\"">> \o b64 \o
        <<"\"", "}">>,
     absentBadJSON |->
        <<"{", "\"", "h", "o", "l", "d", "e", "r", "\"", ":", "\"",
          "A", "l", "\"", ",", "\"", "w", "a", "s", "\"", ":", "\"">> \o b64 \o
        <<"\"", ",", "}">>]

JSONKinds == DOMAIN PersonalizationJSON(<<>>)

PageHead ==
    <<"<", "h", "t", "m", "l", ">", "\n", "<", "s", "c", "r", "i", "p",
      "t", ">", "\n">>

PageTail ==
    <<"\n", "<", "/", "s", "c", "r", "i", "p", "t", ">", "\n", "<", "/",
      "h", "t", "m", "l", ">", "\n">>

\* the page lines around the object js, by layout
PageLines(js) ==
    [plain |->
        <<"w", "i", "n", "d", "o", "w", ".", "P", "E", "R", "S", "O", "N",
          "A", "L", "I", "Z", "A", "T", "I", "O", "N", " ", "=", " ">> \o js \o <<";">>,
     tight |->
        <<"w", "i", "n", "d", "o", "w", ".", "P", "E", "R", "S", "O", "N",
          "A", "L", "I", "Z", "A", "T", "I", "O", "N", "=">> \o js \o <<";">>,
     spread |->
        <<"w", "i", "n", "d", "o", "w", ".", "P", "E", "R", "S", "O", "N",
          "A", "L", "I", "Z", "A", "T", "I", "O", "N", " ", "\t", "=", " ",
          " ">> \o js \o <<" ", ";">>,
     sameLine |->
        <<"<", "b", ">", "x", "<", "/", "b", ">", "<", "s", "c", "r", "i",
          "p", "t", ">", "w", "i", "n", "d", "o", "w", ".", "P", "E", "R",
          "S", "O", "N", "A", "L", "I", "Z", "A", "T", "I", "O", "N", " ",
          "=", " ">> \o js \o
        <<";", "<", "/", "s", "c", "r", "i", "p", "t", ">">>,
     afterUse |->
        <<"v", "a", "r", " ", "p", " ", "=", " ", "w", "i", "n", "d", "o",
          "w", ".", "P", "E", "R", "S", "O", "N", "A", "L", "I", "Z", "A",
          "T", "I", "O", "N", ";", "\n", "w", "i", "n", "d", "o", "w", ".",
          "P", "E", "R", "S", "O", "N", "A", "L", "I", "Z", "A", "T", "I",
          "O", "N", " ", "=", " ">> \o js
        \o <<";">>,
     noSemicolon |->
        <<"w", "i", "n", "d", "o", "w", ".", "P", "E", "R", "S", "O", "N",
          "A", "L", "I", "Z", "A", "T", "I", "O", "N", " ", "=", " ">> \o js,
     nullAssign |->
        <<"w", "i", "n", "d", "o", "w", ".", "P", "E", "R", "S", "O", "N",
          "A", "L", "I", "Z", "A", "T", "I", "O", "N", " ", "=", " ", "n",
          "u", "l", "l", ";">>,
     noAssign |->
        <<"v", "a", "r", " ", "p", " ", "=", " ", "w", "i", "n", "d", "o",
          "w", ".", "P", "E", "R", "S", "O", "N", "A", "L", "I", "Z", "A",
          "T", "I", "O", "N", ";">>]

PageLayouts == DOMAIN PageLines(<<>>)

\* the layouts without a 'window.PERSONALIZATION = {...};' assignment
NoAssignLayouts == {"noSemicolon", "nullAssign", "noAssign"}

PageOf(json, layout) == PageHead \o PageLines(json)[layout] \o PageTail

ExtractInit ==
    /\ sham = ShamOff
    /\ sec = SecOff
    /\ EngineOff
    /\ \E ct \in ExtractCiphertexts, kind \in JSONKinds, layout \in PageLayouts :
         prs = [pc |-> "page", ct |-> ct, kind |-> kind, layout |-> layout,
                content |-> PageOf(PersonalizationJSON(StdEncodeToString(ct))[kind],
                                   layout),
                result |-> [err |-> "none", data |-> <<>>]]

\* ExtractManifestFromHTML is called on the page
ExtractManifestStep ==
    /\ prs.pc = "page"
    /\ prs' = [prs EXCEPT !.pc = "extracted",
                          !.result = ExtractManifestFromHTML(prs.content)]
    /\ UNCHANGED <<sham, sec, engineVars>>

SpecExtract == ExtractInit /\ [][ExtractManifestStep]_vars

\* the objects whose manifestB64 is the base64 of the ciphertext
RoundTripKinds == {"only", "before", "after", "number", "spaced", "caseKey"}

\* C23: from a page with a line 'window.PERSONALIZATION = {...};' whose
\* object has manifestB64 = base64(ct), possibly next to other keys,
\* ExtractManifestFromHTML returns exactly ct, for every ciphertext ct.
PersonalizationRoundTrip ==
    (/\ prs.pc = "extracted"
     /\ prs.layout \notin NoAssignLayouts
     /\ prs.kind \in RoundTripKinds)
    => /\ prs.result.err = "ok"
       /\ prs.result.data = prs.ct

BadJSONKinds == {"trailingComma", "unquotedKey", "absentBadJSON"}

\* the objects without a key manifestB64, or with null for it
AbsentKinds == {"absent", "nullValue", "foldedOnly"}

BadBase64Kinds == {"badChar", "badPadding"}

FailedWith(err) == prs.result.err = err /\ prs.result.data = <<>>

\* the page has no assignment the expression matches (in the layout without
\* the semicolon, the text a}; inside the note of "after" is matched)
NoAssignment ==
    /\ prs.layout \in NoAssignLayouts
    /\ ~(prs.layout = "noSemicolon" /\ prs.kind = "after")

\* C24: ExtractManifestFromHTML returns an error and no bytes when the page
\* has no assignment, else when the object is not valid JSON, else when
\* manifestB64 is absent or empty, else when it is not valid base64.
ExtractionErrorsInOrder ==
    prs.pc = "extracted" =>
        /\ NoAssignment
           => FailedWith("no PERSONALIZATION data found in HTML")
        /\ (prs.layout \notin NoAssignLayouts /\ prs.kind \in BadJSONKinds)
           => FailedWith("parsing PERSONALIZATION JSON")
        /\ (/\ prs.layout \notin NoAssignLayouts
            /\ \/ prs.kind \in AbsentKinds
               \/ prs.kind \in RoundTripKinds /\ prs.ct = <<>>)
           => FailedWith("no embedded manifest in HTML (manifestB64 is empty)")
        /\ (prs.layout \notin NoAssignLayouts /\ prs.kind \in BadBase64Kinds)
           => FailedWith("decoding manifest base64")

(***************************************************************************)
(* Recovery page generation (src/internal/html/recover.go).                *)
(***************************************************************************)
\* strings.Replace(s, old, new, n): the first n occurrences, all of them
\* for n < 0
RECURSIVE Replace(_, _, _, _)
Replace(s, old, new, n) ==
    IF n = 0 \/ Index(s, old) = -1 THEN s
    ELSE SubSeq(s, 1, Index(s, old)) \o new
         \o Replace(SubSeq(s, Index(s, old) + Len(old) + 1, Len(s)), old, new, n - 1)

TokStyles ==
    <<"{", "{", "S", "T", "Y", "L", "E", "S", "}", "}">>

TokWasmExec ==
    <<"{", "{", "W", "A", "S", "M", "_", "E", "X", "E", "C", "}", "}">>

TokAppJS ==
    <<"{", "{", "A", "P", "P", "_", "J", "S", "}", "}">>

TokCreateAppJS ==
    <<"{", "{", "C", "R", "E", "A", "T", "E", "_", "A", "P", "P", "_", "J",
      "S", "}", "}">>

TokWasmBase64 ==
    <<"{", "{", "W", "A", "S", "M", "_", "B", "A", "S", "E", "6", "4", "}",
      "}">>

TokVersion ==
    <<"{", "{", "V", "E", "R", "S", "I", "O", "N", "}", "}">>

TokGithubURL ==
    <<"{", "{", "G", "I", "T", "H", "U", "B", "_", "U", "R", "L", "}", "}">>

\* GenerateRecoverHTML(wasmBytes, version, githubURL); a holds the
\* arguments and the embedded assets
GenerateRecoverHTML(a) ==
    Replace(
     Replace(
      Replace(
       Replace(
        Replace(
         Replace(a.recoverHTMLTemplate, TokStyles, a.stylesCSS, 1),
         TokWasmExec, a.wasmExecJS, 1),
        TokAppJS, a.appJS, 1),
       TokWasmBase64, StdEncodeToString(a.wasmBytes), 1),
      TokVersion, a.version, 1),
     TokGithubURL, a.githubURL, 1)

\* GenerateRememoryHTML(wasmBytes, version, githubURL)
GenerateRememoryHTML(a) ==
    Replace(
     Replace(
      Replace(
       Replace(
        Replace(
         Replace(a.rememoryHTMLTemplate, TokStyles, a.stylesCSS, 1),
         TokWasmExec, a.wasmExecJS, 1),
        TokCreateAppJS, a.createAppJS, 1),
       TokWasmBase64, StdEncodeToString(a.wasmBytes), 1),
      TokVersion, a.version, 0 - 1),
     TokGithubURL, a.githubURL, 0 - 1)

\* the values of the tokens of the recovery page
RecoverValues(a) ==
    <<[tok |-> TokStyles, val |-> a.stylesCSS],
      [tok |-> TokWasmExec, val |-> a.wasmExecJS],
      [tok |-> TokAppJS, val |-> a.appJS],
      [tok |-> TokWasmBase64, val |-> StdEncodeToString(a.wasmBytes)],
      [tok |-> TokVersion, val |-> a.version],
      [tok |-> TokGithubURL, val |-> a.githubURL]>>

\* the token that occurs first in s, 0 if none does
FirstToken(s, values) ==
    IF \A k \in DOMAIN values : Index(s, values[k].tok) = -1 THEN 0
    ELSE CHOOSE k \in DOMAIN values :
            /\ Index(s, values[k].tok) # -1
            /\ \A h \in DOMAIN values :
                   Index(s, values[h].tok) # -1
                   => Index(s, values[k].tok) <= Index(s, values[h].tok)

\* one pass over s from left to right: every token is replaced by its
\* value, what was inserted is not looked at again
RECURSIVE SinglePass(_, _)
SinglePass(s, values) ==
    IF FirstToken(s, values) = 0 THEN s
    ELSE SubSeq(s, 1, Index(s, values[FirstToken(s, values)].tok))
         \o values[FirstToken(s, values)].val
         \o SinglePass(SubSeq(s, Index(s, values[FirstToken(s, values)].tok)
                                 + Len(values[FirstToken(s, values)].tok) + 1,
                              Len(s)),
                       values)

(***************************************************************************)
(* Specification SpecPage: the recovery page and the creation page are     *)
(* generated from a template, embedded assets and arguments.               *)
(***************************************************************************)
\* every token once; in another order; the version token twice
PageTemplates ==
    {<<"a", "{", "{", "S", "T", "Y", "L", "E", "S", "}", "}", "b", "{", "{",
  "W", "A", "S", "M", "_", "E", "X", "E", "C", "}", "}", "c", "{", "{",
  "A", "P", "P", "_", "J", "S", "}", "}", "d", "{", "{", "W", "A", "S",
  "M", "_", "B", "A", "S", "E", "6", "4", "}", "}", "e", "{", "{", "V",
  "E", "R", "S", "I", "O", "N", "}", "}", "f", "{", "{", "G", "I", "T",
  "H", "U", "B", "_", "U", "R", "L", "}", "}", "g">>,
     <<"{", "{", "G", "I", "T", "H", "U", "B", "_", "U", "R", "L", "}", "}",
  "a", "{", "{", "V", "E", "R", "S", "I", "O", "N", "}", "}", "b", "{",
  "{", "A", "P", "P", "_", "J", "S", "}", "}", "c", "{", "{", "S", "T",
  "Y", "L", "E", "S", "}", "}", "d", "{", "{", "W", "A", "S", "M", "_",
  "B", "A", "S", "E", "6", "4", "}", "}", "{", "{", "W", "A", "S", "M",
  "_", "E", "X", "E", "C", "}", "}">>,
     <<"a", "{", "{", "S", "T", "Y", "L", "E", "S", "}", "}", "b", "{", "{",
  "W", "A", "S", "M", "_", "E", "X", "E", "C", "}", "}", "c", "{", "{",
  "A", "P", "P", "_", "J", "S", "}", "}", "d", "{", "{", "W", "A", "S",
  "M", "_", "B", "A", "S", "E", "6", "4", "}", "}", "e", "{", "{", "V",
  "E", "R", "S", "I", "O", "N", "}", "}", "f", "{", "{", "G", "I", "T",
  "H", "U", "B", "_", "U", "R", "L", "}", "}", "g", "{", "{", "V", "E",
  "R", "S", "I", "O", "N", "}", "}">>}

StylesTexts ==
    {<<"s">>,
     <<"x", "{", "{", "A", "P", "P", "_", "J", "S", "}", "}", "y">>,
     <<"{", "{", "V", "E", "R", "S", "I", "O", "N", "}", "}">>}

WasmExecTexts ==
    {<<"w">>,
     <<"{", "{", "S", "T", "Y", "L", "E", "S", "}", "}">>}

AppTexts ==
    {<<"j">>,
     <<"{", "{", "W", "A", "S", "M", "_", "E", "X", "E", "C", "}", "}">>,
     <<"v", "=", "{", "{", "V", "E", "R", "S", "I", "O", "N", "}", "}">>}

WasmBinaries == {<<>>, <<7>>}

VersionTexts ==
    {<<"1">>,
     <<"{", "{", "G", "I", "T", "H", "U", "B", "_", "U", "R", "L", "}", "}">>,
     <<"{", "{", "S", "T", "Y", "L", "E", "S", "}", "}">>}

URLTexts ==
    {<<"u">>,
     <<"{", "{", "V", "E", "R", "S", "I", "O", "N", "}", "}">>}

PageInit ==
    /\ sham = ShamOff
    /\ sec = SecOff
    /\ EngineOff
    /\ \E t \in PageTemplates, css \in StylesTexts, wx \in WasmExecTexts,
          js \in AppTexts, wasm \in WasmBinaries, v \in VersionTexts,
          url \in URLTexts :
         prs = [pc |-> "assets",
                a |-> [recoverHTMLTemplate |-> t,
                       rememoryHTMLTemplate |-> Replace(t, TokAppJS, TokCreateAppJS, 0 - 1),
                       stylesCSS |-> css, wasmExecJS |-> wx, appJS |-> js,
                       createAppJS |-> js, wasmBytes |-> wasm, version |-> v,
                       githubURL |-> url],
                recover |-> <<>>, rememory |-> <<>>]

\* GenerateRecoverHTML is called
GenerateRecoverStep ==
    /\ prs.pc = "assets"
    /\ prs' = [prs EXCEPT !.pc = "recover", !.recover = GenerateRecoverHTML(prs.a)]
    /\ UNCHANGED <<sham, sec, engineVars>>

\* GenerateRememoryHTML is called
GenerateRememoryStep ==
    /\ prs.pc = "recover"
    /\ prs' = [prs EXCEPT !.pc = "rememory", !.rememory = GenerateRememoryHTML(prs.a)]
    /\ UNCHANGED <<sham, sec, engineVars>>

PageNext == GenerateRecoverStep \/ GenerateRememoryStep

SpecPage == PageInit /\ [][PageNext]_vars

\* C25: the output of GenerateRecoverHTML is the template with each token
\* replaced by its value in one pass from left to right: a token literal
\* inside an inserted value is emitted as it is, and the template's own
\* tokens are replaced.
SinglePassSubstitution ==
    prs.pc \in {"recover", "rememory"}
    => prs.recover = SinglePass(prs.a.recoverHTMLTemplate, RecoverValues(prs.a))


(***************************************************************************)
(* Specification SpecQuorum: a project is sealed, then the recovery        *)
(* pipeline (combineShares, decryptManifest, extractTarGz) is run directly *)
(* on a selection of its shares and its ciphertext.                        *)
(***************************************************************************)
QuorumN == 4

QuorumInit ==
    /\ sham = ShamOff
    /\ sec = SecOff
    /\ prs = PrsOff
    /\ session = [state |-> "off"]
    /\ project = [state |-> "init", err |-> "none", files |-> <<>>, n |-> 0, k |-> 0,
                  passphrase |-> <<>>, ciphertext |-> NotAge, shares |-> <<>>]
    /\ last = [op |-> "none"]

\* rememory seal
QuorumSealStep ==
    /\ project.state = "init"
    /\ \E files \in FileSets, n \in 2..QuorumN, passphrase \in SealPassphrases :
         \E k \in 2..n :
            \E coeffs \in SealCoeffs(Len(passphrase), k) :
               LET r == Seal(files, n, k, passphrase, coeffs)
               IN  project' =
                      IF r.err = "ok"
                      THEN [state |-> "sealed", err |-> "ok", files |-> files,
                            n |-> n, k |-> k, passphrase |-> passphrase,
                            ciphertext |-> r.ciphertext, shares |-> r.shares]
                      ELSE [project EXCEPT !.state = "failed", !.err = r.err]
    /\ UNCHANGED <<sham, sec, prs, session, last>>

\* the shares of the holders picked, as the page hands them to the pipeline
PickedShares(picked) ==
    [i \in DOMAIN picked |->
        [Index |-> project.shares[picked[i]].Index,
         DataB64 |-> StdEncodeToString(project.shares[picked[i]].Data)]]

\* the pipeline is run on the shares of two or more holders
PipelineStep ==
    /\ project.state = "sealed"
    /\ last.op = "none"
    /\ \E picked \in Arrangements(1..project.n, 2, project.n) :
         LET r == RecoverPipeline(PickedShares(picked), project.ciphertext)
         IN  last' = [op |-> "pipeline", picked |-> picked,
                      err |-> r.err, files |-> r.files]
    /\ UNCHANGED <<sham, sec, prs, project, session>>

QuorumNext == QuorumSealStep \/ PipelineStep

SpecQuorum == QuorumInit /\ [][QuorumNext]_vars

\* the pipeline has run on fewer shares than the threshold
BelowThreshold ==
    /\ last.op = "pipeline"
    /\ Len(last.picked) >= 2
    /\ Len(last.picked) < project.k

\* C26: the pipeline run on m shares of a sealed K-of-N project with
\* 2 <= m < K ends in an error and returns no files.
BelowThresholdNeverRecovers ==
    BelowThreshold
    => /\ last.err \in {"combine-failed", "wrong-passphrase"}
       /\ last.files = <<>>

\* C26 (amended): the pipeline run on m shares with 2 <= m < K ends in
\* the decrypt error and returns no files, unless the m shares combine to
\* the sealed passphrase itself; then it returns the sealed files.
BelowThresholdRecoversOnlyByChance ==
    BelowThreshold
    => IF combineShares(PickedShares(last.picked)).passphrase = project.passphrase
       THEN last.err = "ok" /\ last.files = project.files
       ELSE last.err = "wrong-passphrase" /\ last.files = <<>>

BelowThresholdRecoversOnlyByChanceWitness ==
    /\ BelowThreshold
    /\ project.k = 4
    /\ Len(last.picked) = 3
    /\ last.err = "wrong-passphrase"


(***************************************************************************)
(* The command line: rememory init, seal, bundle (src/unnamed/part_001).   *)
(* The disk holds at most one project (project.yml with its friends and    *)
(* its Sealed section) and the bundle ZIPs written under output/bundles.   *)
(***************************************************************************)
MaxCommands == 4
MaxFriends == 3

NoProject == [exists |-> FALSE]
Nil == [set |-> FALSE]

\* what bundle.GenerateAll does for a project of n friends when the
\* first written ZIPs can be written: one ZIP per friend, in order
GenerateAll(disk, written) ==
    IF written < disk.project.friends
    THEN [err |-> "generating bundles", bundles |-> disk.bundles \cup (1..written)]
    ELSE [err |-> "ok", bundles |-> disk.bundles \cup (1..disk.project.friends)]

\* runBundle without the check of p.Sealed
runBundleNoSealCheck(disk, cwdOk, loadOk, wasmLen, written) ==
    IF ~cwdOk
    THEN [err |-> "getting current directory", bundles |-> disk.bundles]
    ELSE IF ~disk.project.exists
    THEN [err |-> "no rememory project found", bundles |-> disk.bundles]
    ELSE IF ~loadOk
    THEN [err |-> "loading project", bundles |-> disk.bundles]
    ELSE IF wasmLen = 0
    THEN [err |-> "WASM binary not embedded", bundles |-> disk.bundles]
    ELSE GenerateAll(disk, written)

\* runBundle: cwdOk and loadOk tell whether os.Getwd and project.Load
\* succeed, wasmLen is the length of the embedded WASM binary
runBundle(disk, cwdOk, loadOk, wasmLen, written) ==
    IF ~cwdOk
    THEN [err |-> "getting current directory", bundles |-> disk.bundles]
    ELSE IF ~disk.project.exists
    THEN [err |-> "no rememory project found", bundles |-> disk.bundles]
    ELSE IF ~loadOk
    THEN [err |-> "loading project", bundles |-> disk.bundles]
    ELSE IF disk.project.Sealed = Nil
    THEN [err |-> "project must be sealed", bundles |-> disk.bundles]
    ELSE IF wasmLen = 0
    THEN [err |-> "WASM binary not embedded", bundles |-> disk.bundles]
    ELSE GenerateAll(disk, written)

(***************************************************************************)
(* Specification SpecCli: any sequence of init, seal and bundle commands.  *)
(* prs.sealedBefore records that a seal has succeeded.                     *)
(***************************************************************************)
CliInit ==
    /\ sham = ShamOff
    /\ sec = SecOff
    /\ EngineOff
    /\ \E wasmLen \in {0, 1} :
         prs = [pc |-> "shell", project |-> NoProject, bundles |-> {},
                wasmLen |-> wasmLen, cmd |-> "none", err |-> "none",
                sealedBefore |-> FALSE, commands |-> 0]

\* the command cmd has run, returned err and left project and bundles
Ran(cmd, err, proj, bundles, sealed) ==
    prs' = [prs EXCEPT !.cmd = cmd, !.err = err, !.project = proj,
                       !.bundles = bundles, !.commands = prs.commands + 1,
                       !.sealedBefore = prs.sealedBefore \/ sealed]

\* rememory init: a new project of n friends, not sealed; refused when a
\* project is there already
CliInitStep ==
    /\ prs.commands < MaxCommands
    /\ \E n \in 2..MaxFriends, hasFiles \in BOOLEAN :
         IF prs.project.exists
         THEN Ran("init", "exists", prs.project, prs.bundles, FALSE)
         ELSE Ran("init", "ok",
                  [exists |-> TRUE, friends |-> n, hasFiles |-> hasFiles,
                   Sealed |-> Nil],
                  prs.bundles, FALSE)
    /\ UNCHANGED <<sham, sec, engineVars>>

\* rememory seal: on success the Sealed section is saved in project.yml
CliSealStep ==
    /\ prs.commands < MaxCommands
    /\ \E sealOk \in BOOLEAN :
         IF ~prs.project.exists
         THEN Ran("seal", "no rememory project found", prs.project, prs.bundles, FALSE)
         ELSE IF ~prs.project.hasFiles \/ ~sealOk
         THEN Ran("seal", "seal failed", prs.project, prs.bundles, FALSE)
         ELSE Ran("seal", "ok",
                  [prs.project EXCEPT !.Sealed = [set |-> TRUE, at |-> prs.commands + 1]],
                  prs.bundles, TRUE)
    /\ UNCHANGED <<sham, sec, engineVars>>

\* rememory bundle
CliBundleStep ==
    /\ prs.commands < MaxCommands
    /\ \E cwdOk \in BOOLEAN, loadOk \in BOOLEAN, written \in 0..MaxFriends :
         LET r == runBundle(prs, cwdOk, loadOk, prs.wasmLen, written)
         IN  Ran("bundle", r.err, prs.project, r.bundles, FALSE)
    /\ UNCHANGED <<sham, sec, engineVars>>

CliNext == CliInitStep \/ CliSealStep \/ CliBundleStep

SpecCli == CliInit /\ [][CliNext]_vars

\* the project on disk is not sealed (or there is none)
NotSealed == ~prs.project.exists \/ prs.project.Sealed = Nil

\* C27: runBundle on a project that is not sealed returns an error and
\* writes no bundle, and no bundle ZIP exists unless a seal has succeeded
\* earlier.
BundlesOnlyAfterSeal ==
    /\ [](prs.bundles # {} => prs.sealedBefore)
    /\ [][(prs'.cmd = "bundle" /\ NotSealed)
          => (prs'.err # "ok" /\ prs'.bundles = prs.bundles)]_vars

BundlesOnlyAfterSealWitness ==
    /\ prs.cmd = "bundle"
    /\ prs.project.exists
    /\ prs.project.Sealed = Nil
    /\ prs.err = "project must be sealed"
    /\ prs.bundles = {}


(***************************************************************************)
(* Specification SpecSession: one recover session receives any sequence    *)
(* of AddShare and SetCiphertext calls; the blobs are share files whose    *)
(* headers carry any index, total and threshold.  last.first is the share  *)
(* returned by the first AddShare that succeeded.                          *)
(***************************************************************************)
MaxIndex == 3

SessionShares ==
    {NewShare(i, t, k, HolderList[i], <<i, 7>>) :
        i \in 1..MaxIndex, t \in 2..3, k \in 2..3}

SessionBlobKinds == {"share", "bang"}

SessionCiphertexts == {NotAge, Encrypt(<<1>>, <<255>>).ciphertext}

SessionInit ==
    /\ sham = ShamOff
    /\ sec = SecOff
    /\ prs = PrsOff
    /\ project = [state |-> "off"]
    /\ session = EmptySession
    /\ last = [op |-> "none", err |-> "none", first |-> ZeroShareInfo]

\* the outcome r of AddShare
SessionAddShareReturns(r) ==
    /\ session' = r.session
    /\ last' = [op |-> "AddShare", err |-> r.err,
                first |-> IF r.err = "ok" /\ Len(session.shares) = 0
                          THEN r.share ELSE last.first]

SessionAddShareStep ==
    /\ \E s \in SessionShares, kind \in SessionBlobKinds :
         SessionAddShareReturns(AddShare(session, BlobText(s, kind)))
    /\ UNCHANGED <<sham, sec, prs, project>>

SessionSetCiphertextStep ==
    /\ \E bytes \in SessionCiphertexts :
         session' = SetCiphertext(session, bytes)
    /\ last' = [last EXCEPT !.op = "SetCiphertext", !.err = "ok"]
    /\ UNCHANGED <<sham, sec, prs, project>>

SessionNext == SessionAddShareStep \/ SessionSetCiphertextStep

SpecSession == SessionInit /\ [][SessionNext]_vars

\* the held shares have pairwise distinct indices and one (total, threshold)
CohortCompatible ==
    \A i, j \in DOMAIN session.shares :
       /\ i # j => session.shares[i].Index # session.shares[j].Index
       /\ session.shares[i].Total = session.shares[j].Total
       /\ session.shares[i].Threshold = session.shares[j].Threshold

\* threshold and total of the progress tuple are those of the first
\* accepted share
ProgressOfFirst ==
    Len(session.shares) > 0
    => /\ Progress(session)[1] = Len(session.shares)
       /\ Progress(session)[2] = last.first.Threshold
       /\ Progress(session)[3] = last.first.Total

CollectedWithinTotal ==
    Len(session.shares) > 0 => Progress(session)[1] <= Progress(session)[3]

\* the collected count never decreases, and SetCiphertext leaves the
\* shares as they are
SessionSteps ==
    /\ Len(session'.shares) >= Len(session.shares)
    /\ last'.op = "SetCiphertext" => session'.shares = session.shares

\* what holds of the session between calls
SessionState == CohortCompatible /\ CollectedWithinTotal /\ ProgressOfFirst

\* C28: after any sequence of AddShare and SetCiphertext calls the held
\* shares have pairwise distinct indices and the same (total, threshold),
\* collected <= total, the collected count never decreases, threshold and
\* total of the progress tuple are those of the first accepted share, and
\* SetCiphertext never changes the share set.
SessionInvariants ==
    /\ []SessionState
    /\ [][SessionSteps]_vars


(***************************************************************************)
(* bundle.CreateZip (src/internal/html/embed.go).  The file at the path    *)
(* is the sequence of entries written to it, whether the central           *)
(* directory was written (finalized) and whether it was closed without     *)
(* error.  io tells which of the calls on the file system and on the zip   *)
(* writer fail: os.Create, CreateHeader of entry headerFails, Write of     *)
(* entry writeFails (0: none), w.Close, f.Close.                           *)
(***************************************************************************)
NoZip == [exists |-> FALSE, entries |-> <<>>, finalized |-> FALSE, closed |-> FALSE]

\* the entry written for a file: header (Name, Method, Modified) and content
ZipEntry(file) ==
    [Name |-> file.Name, Method |-> "Deflate", Modified |-> file.ModTime,
     Content |-> file.Content]

\* the loop over the files from file i on: the error returned and the
\* entries written
RECURSIVE CreateZipLoop(_, _, _, _)
CreateZipLoop(files, i, entries, io) ==
    IF i > Len(files) THEN [err |-> "ok", entries |-> entries]
    ELSE IF io.headerFails = i THEN [err |-> "creating entry", entries |-> entries]
    ELSE IF io.writeFails = i THEN [err |-> "writing entry", entries |-> entries]
    ELSE CreateZipLoop(files, i + 1, Append(entries, ZipEntry(files[i])), io)

\* the deferred w.Close() and f.Close() run when CreateZip returns err;
\* what they return is dropped
CreateZipDeferred(loop, io) ==
    [err |-> loop.err,
     zip |-> [exists |-> TRUE, entries |-> loop.entries,
              finalized |-> io.closeOk, closed |-> io.fileCloseOk]]

\* CreateZip(path, files)
CreateZip(files, io) ==
    IF ~io.createOk THEN [err |-> "creating zip file", zip |-> NoZip]
    ELSE CreateZipDeferred(CreateZipLoop(files, 1, <<>>, io), io)

(***************************************************************************)
(* Specification SpecZip: CreateZip is called once on a list of files.     *)
(***************************************************************************)
MaxZipFiles == 3

ZipReadme == [Name |-> "README.txt", Content |-> <<72, 105>>, ModTime |-> 1]
ZipManifest == [Name |-> "MANIFEST.age", Content |-> <<>>, ModTime |-> 1]
ZipRecover == [Name |-> "recover.html", Content |-> <<60>>, ModTime |-> 2]

ZipFileLists ==
    {<<>>, <<ZipReadme>>, <<ZipManifest, ZipReadme>>,
     <<ZipReadme, ZipManifest, ZipRecover>>}

ZipIO ==
    [createOk : BOOLEAN, headerFails : 0..MaxZipFiles, writeFails : 0..MaxZipFiles,
     closeOk : BOOLEAN, fileCloseOk : BOOLEAN]

ZipInit ==
    /\ sham = ShamOff
    /\ sec = SecOff
    /\ EngineOff
    /\ \E files \in ZipFileLists, io \in ZipIO :
         prs = [pc |-> "call", files |-> files, io |-> io,
                err |-> "none", zip |-> NoZip]

CreateZipReturns(r) ==
    prs' = [prs EXCEPT !.pc = "returned", !.err = r.err, !.zip = r.zip]

CreateZipStep ==
    /\ prs.pc = "call"
    /\ CreateZipReturns(CreateZip(prs.files, prs.io))
    /\ UNCHANGED <<sham, sec, engineVars>>

SpecZip == ZipInit /\ [][CreateZipStep]_vars

\* a complete ZIP is at the path: every file as a Deflate entry, in the
\* given order, with its ModTime, the archive finalized, the file closed
CompleteZip ==
    /\ prs.zip.exists
    /\ prs.zip.entries = [i \in DOMAIN prs.files |-> ZipEntry(prs.files[i])]
    /\ prs.zip.finalized
    /\ prs.zip.closed

\* one of the steps of the call failed
ZipStepFailed ==
    \/ ~prs.io.createOk
    \/ prs.io.headerFails \in DOMAIN prs.files
    \/ prs.io.writeFails \in DOMAIN prs.files
    \/ ~prs.io.closeOk
    \/ ~prs.io.fileCloseOk

\* C30: CreateZip returns nil only if a complete ZIP was written at the
\* path, and a failure at any step, finalizing and closing included, is
\* reported as an error.
CreateZipNilOnlyIfComplete ==
    prs.pc = "returned"
    => /\ prs.err = "ok" => CompleteZip
       /\ ZipStepFailed => prs.err # "ok"

====
